---- MODULE Spec2Model ----
(***************************************************************************)
(* A model of the pava bytecode interpreter (src/main.py) over class files *)
(* decoded as src/jvmparser.py decodes them (Spec), of the class-file      *)
(* parser of src/jvmparser.py over the bytes of a file (LoaderSpec), and   *)
(* of the descriptor parser of src/main.py (DescriptorSpec).               *)
(*                                                                         *)
(* Strings that the program inspects character by character (names,        *)
(* descriptors, paths) are sequences of one-character strings.  A Python   *)
(* exception is an error name: it unwinds every frame (no handler in       *)
(* src/ catches anything but the ValueError of the opcode decode, which    *)
(* is re-raised as NotImplementedError), so one raised error ends the run. *)
(***************************************************************************)
EXTENDS Integers, Sequences, FiniteSets, TLC

VARIABLES prog,            \* the loaded program: the code arrays and max_stack chosen for this run
          status,          \* "load" | "loaded" | "init" | "running" | "done" | "failed"
          error,           \* the Python exception that ended the run ("" while none)
          frames,          \* the activations of execute_method, innermost last
          runtime_classes, \* run_class_main's runtime_classes: class name -> RuntimeClass
          output,          \* what the print sink has received, in order
          clinit_runs,     \* history: class name -> number of <clinit> frames started
          last,            \* history: the instruction dispatched last, and the state it saw
          file,            \* the class file named on the command line, while it is parsed
          parsed,          \* what parse_class_file made of it
          method_descriptor, \* a method descriptor, while it is parsed
          signature        \* what parse_signature made of it

vars ==
  << prog, status, error, frames, runtime_classes, output, clinit_runs, last, file, parsed,
     method_descriptor, signature >>

(***************************************************************************)
(* Bounds of the model.                                                    *)
(***************************************************************************)
\* how many instructions a generated main method holds at most
MaxInstrs == 2
\* how many nested execute_method activations are followed (Python's own
\* recursion limit ends deeper nestings with RecursionError)
MaxDepth == 4
\* how many parameters a method descriptor that is parsed has at most
MaxParams == 2

(***************************************************************************)
(* Names and descriptors.                                                  *)
(***************************************************************************)
S_Main == <<"M","a","i","n">>
S_Other == <<"O","t","h","e","r">>
S_x == <<"x">>
S_r == <<"r">>
S_f == <<"f">>
S_g == <<"g">>
S_h == <<"h">>
S_I == <<"I">>
S_F == <<"F">>
S_main == <<"m","a","i","n">>
S_clinit == <<"<","c","l","i","n","i","t",">">>
S_Code == <<"C","o","d","e">>
S_out == <<"o","u","t">>
S_print == <<"p","r","i","n","t">>
S_println == <<"p","r","i","n","t","l","n">>
S_Hello == <<"H","e","l","l","o">>
S_JavaLangSystem == <<"j","a","v","a","/","l","a","n","g","/","S","y","s","t","e","m">>
S_JavaIoPrintStream == <<"j","a","v","a","/","i","o","/","P","r","i","n","t","S","t","r","e","a","m">>
S_LPrintStream == <<"L">> \o S_JavaIoPrintStream \o <<";">>
S_LObject == <<"L","j","a","v","a","/","l","a","n","g","/","O","b","j","e","c","t",";">>
S_Desc_V == <<"(",")","V">>
S_Desc_I_V == <<"(","I",")","V">>
S_Desc_II_V == <<"(","I","I",")","V">>
S_Desc_IF_V == <<"(","I","F",")","V">>
S_Desc_Args_V == <<"(","[","L","j","a","v","a","/","l","a","n","g","/","S","t","r","i","n","g",";",")","V">>

(***************************************************************************)
(* Constant-pool entries as parse_constant_pool builds them: a dict with   *)
(* the tag's name under 'tag' and the fields of that tag.                  *)
(***************************************************************************)
Utf8(s) == [tag |-> "CONSTANT_Utf8", bytes |-> s]
ClassEntry(n) == [tag |-> "CONSTANT_Class", name_index |-> n]
NameAndType(n, d) == [tag |-> "CONSTANT_NameAndType", name_index |-> n, descriptor_index |-> d]
Fieldref(c, nt) == [tag |-> "CONSTANT_Fieldref", class_index |-> c, name_and_type_index |-> nt]
Methodref(c, nt) == [tag |-> "CONSTANT_Methodref", class_index |-> c, name_and_type_index |-> nt]
StringEntry(s) == [tag |-> "CONSTANT_String", string_index |-> s]
IntegerEntry(v) == [tag |-> "CONSTANT_Integer", bytes |-> v]
FloatEntry(v) == [tag |-> "CONSTANT_Float", bytes |-> v]

\* The tags whose 'bytes' field is a Python bytes object (only it has .decode).
HasBytes(c) == "bytes" \in DOMAIN c
IsUtf8(c) == c.tag = "CONSTANT_Utf8"

(***************************************************************************)
(* Results of operations that may raise.                                   *)
(***************************************************************************)
Ok(v) == [ok |-> TRUE, v |-> v, err |-> ""]
Err(e) == [ok |-> FALSE, v |-> 0, err |-> e]

(***************************************************************************)
(* Operands.  Operand.value is a Python object of any class; 'kind' names  *)
(* that class so that values of different classes compare unequal.         *)
(* A FLOAT's value is held in millionths.                                  *)
(***************************************************************************)
Operand(t, k, v) == [type |-> t, kind |-> k, value |-> v]
IntOp(i) == Operand("INT", "int", i)
FloatOp(u) == Operand("FLOAT", "float", u)
LongOp(i) == Operand("LONG", "int", i)
DoubleOp(u) == Operand("DOUBLE", "float", u)
NullRef == Operand("REFERENCE", "none", 0)
FakePrintStream == Operand("OBJECT", "bytes", "FakePrintStream")
\* An empty local slot: Python's None, which is no Operand.
NoneSlot == Operand("None", "none", 0)

(***************************************************************************)
(* jvmconsts.Opcode: the members of the enumeration and their values.      *)
(* It has no member named pop and none named putstatic.                    *)
(***************************************************************************)
Opcode ==
  [ getstatic |-> 178, ldc |-> 18, dup |-> 89, invokevirtual |-> 182,
    invokedynamic |-> 186, invokespecial |-> 183, invokestatic |-> 184, return_op |-> 177,
    bipush |-> 16, sipush |-> 17, nop |-> 0, ireturn |-> 172, freturn |-> 174,
    areturn |-> 176, lreturn |-> 173, dreturn |-> 175, i2f |-> 134, iadd |-> 96,
    imul |-> 104, idiv |-> 108, isub |-> 100, iinc |-> 132, f2i |-> 139, fadd |-> 98,
    fsub |-> 102, fmul |-> 106, fdiv |-> 110, aconst_null |-> 1, iconst_0 |-> 3,
    iconst_1 |-> 4, iconst_2 |-> 5, iconst_3 |-> 6, iconst_4 |-> 7, iconst_5 |-> 8,
    lconst_0 |-> 9, lconst_1 |-> 10, fconst_0 |-> 11, fconst_1 |-> 12, fconst_2 |-> 13,
    istore |-> 54, istore_0 |-> 59, istore_1 |-> 60, istore_2 |-> 61, istore_3 |-> 62,
    fstore_0 |-> 67, fstore_1 |-> 68, fstore_2 |-> 69, fstore_3 |-> 70, iload |-> 21,
    iload_0 |-> 26, iload_1 |-> 27, iload_2 |-> 28, iload_3 |-> 29, fload_0 |-> 34,
    fload_1 |-> 35, fload_2 |-> 36, fload_3 |-> 37, iaload |-> 46, iastore |-> 79,
    astore_1 |-> 76, aload_0 |-> 42, aload_1 |-> 43, aload_2 |-> 44, aload_3 |-> 45,
    if_icmpeq |-> 159, if_icmpne |-> 160, if_icmplt |-> 161, if_icmpge |-> 162,
    if_icmpgt |-> 163, if_icmple |-> 164, goto |-> 167, newarray |-> 188,
    arraylength |-> 190 ]

OpcodeNames == DOMAIN Opcode

\* Opcode(opcode_byte): the member with that value, or ValueError ("" here).
OpcodeOf(byte) ==
  IF \E n \in OpcodeNames : Opcode[n] = byte
  THEN CHOOSE n \in OpcodeNames : Opcode[n] = byte
  ELSE ""

(***************************************************************************)
(* The dispatch of execute_method is one if/elif chain; each test reads    *)
(* Opcode.<name>, in this order.  Reading a name the enumeration lacks     *)
(* raises AttributeError, so the chain never gets past its ninth test      *)
(* (main.py:308, Opcode.pop): the tests after it are never evaluated.      *)
(***************************************************************************)
HandlerChain == << "getstatic", "ldc", "invokevirtual", "invokedynamic", "invokestatic",
                   "invokespecial", "bipush", "sipush", "pop" >>

\* The handler the chain selects for a decoded opcode: the first test that
\* either matches it or names a missing member ("AttributeError").
SelectHandler(opname) ==
  LET stops == { i \in 1..Len(HandlerChain) :
                   HandlerChain[i] \notin OpcodeNames \/ HandlerChain[i] = opname }
      i == CHOOSE j \in stops : \A k \in stops : j <= k
  IN  IF HandlerChain[i] \notin OpcodeNames THEN "AttributeError" ELSE HandlerChain[i]

(***************************************************************************)
(* utils.py: the primitive reads on a BytesIO over `code` whose cursor is  *)
(* pc (0-based).  f.read(n) returns the bytes that are left, at most n.    *)
(***************************************************************************)
Min(a, b) == IF a < b THEN a ELSE b

\* f.read(n): the bytes read and the cursor after them
Read(code, pc, n) ==
  LET k == IF pc >= Len(code) THEN 0 ELSE Min(n, Len(code) - pc)
  IN  [bytes |-> SubSeq(code, pc + 1, pc + k), pc |-> pc + k]

RECURSIVE FromBytesBig(_)
\* int.from_bytes(bs, 'big'): unsigned, and 0 for no bytes at all
FromBytesBig(bs) ==
  IF bs = <<>> THEN 0
  ELSE FromBytesBig(SubSeq(bs, 1, Len(bs) - 1)) * 256 + bs[Len(bs)]

\* struct.unpack('>B', f.read(1))[0]: struct.error unless one byte was read
parse_u1(code, pc) ==
  LET r == Read(code, pc, 1)
  IN  IF Len(r.bytes) = 1 THEN [ok |-> TRUE, v |-> r.bytes[1], err |-> "", pc |-> r.pc]
      ELSE [ok |-> FALSE, v |-> 0, err |-> "struct.error", pc |-> r.pc]

\* int.from_bytes(f.read(1), 'big'): never raises
parse_i1(code, pc) ==
  LET r == Read(code, pc, 1)
  IN  [ok |-> TRUE, v |-> FromBytesBig(r.bytes), err |-> "", pc |-> r.pc]

\* int.from_bytes(f.read(2), 'big'): never raises
parse_i2(code, pc) ==
  LET r == Read(code, pc, 2)
  IN  [ok |-> TRUE, v |-> FromBytesBig(r.bytes), err |-> "", pc |-> r.pc]

u16_to_i16(v) == IF (v \div 32768) % 2 = 1 THEN v - 65536 ELSE v

(***************************************************************************)
(* Python indexing of a list: 0-based, a negative index counts from the    *)
(* end, anything else out of range raises IndexError.                      *)
(***************************************************************************)
PyIndex(list, i) ==
  IF 0 <= i /\ i < Len(list) THEN Ok(list[i + 1])
  ELSE IF i < 0 /\ -i <= Len(list) THEN Ok(list[Len(list) + i + 1])
  ELSE Err("IndexError")

\* d[key] of a dict entry: KeyError when the entry has no such field
Field(entry, key) == IF key \in DOMAIN entry THEN Ok(entry[key]) ELSE Err("KeyError")

(***************************************************************************)
(* jvmparser.py: constant-pool access.                                     *)
(***************************************************************************)
from_cp(constant_pool, index) ==
  IF ~(index > 0) THEN Err("AssertionError")
  ELSE PyIndex(constant_pool, index - 1)

\* constant['bytes'].decode('utf-8'): only a Utf8 entry's bytes can be decoded
\* (an Integer's or a Float's 'bytes' is a number: AttributeError)
DecodeBytes(constant) ==
  IF ~HasBytes(constant) THEN Err("KeyError")
  ELSE IF ~IsUtf8(constant) THEN Err("AttributeError")
  ELSE Ok(constant.bytes)

\* a statement whose value r the next statements K use: when it raises, the
\* exception propagates
Bind(r, K(_)) == IF r.ok THEN K(r.v) ELSE r

\* an assignment: K is what follows it
With(v, K(_)) == K(v)

\* the shape shared by get_name_of and get_type_of_member
ResolveVia(constant_pool, index, field) ==
  Bind(from_cp(constant_pool, index), LAMBDA constant :
    IF HasBytes(constant) THEN DecodeBytes(constant)
    ELSE Bind(Field(constant, field), LAMBDA index_to :
         Bind(from_cp(constant_pool, index_to), LAMBDA named : DecodeBytes(named))))

get_name_of(constant_pool, index) == ResolveVia(constant_pool, index, "name_index")

get_type_of_member(constant_pool, index) == ResolveVia(constant_pool, index, "descriptor_index")

\* parse_flags(value, METHOD_ACCESS_FLAGS) contains 'ACC_STATIC' (mask 0x0008)
ACC_STATIC == 8
IsStatic(access_flags) == (access_flags \div ACC_STATIC) % 2 = 1

(***************************************************************************)
(* jvmparser.py: the class-file parser, on the bytes of a file f with the  *)
(* cursor at pc (0-based).  Every step returns what it read and the cursor *)
(* behind it, or the exception it raised and the cursor at that point.     *)
(***************************************************************************)
Parsed(v, pc) == [ok |-> TRUE, v |-> v, err |-> "", pc |-> pc]
Failed(e, pc) == [ok |-> FALSE, v |-> 0, err |-> e, pc |-> pc]

\* an assignment whose right-hand side v is evaluated once, before the
\* statements K that use it
Once(v, K(_)) == CHOOSE r \in { K(x) : x \in {v} } : TRUE

\* a read whose value v and cursor pc the next statements K use
Then(read, K(_, _)) == Once(read, LAMBDA r : IF r.ok THEN K(r.v, r.pc) ELSE r)

\* a statement that reads nothing: when it raises, the cursor stays at pc
Lift(result, pc, K(_)) == Once(result, LAMBDA r : IF r.ok THEN K(r.v) ELSE Failed(r.err, pc))

\* a number of up to four bytes as the pair of its upper and its lower 16
\* bits (the value is upper * 65536 + lower)
Halves(bs) ==
  IF Len(bs) <= 2 THEN << 0, FromBytesBig(bs) >>
  ELSE << FromBytesBig(SubSeq(bs, 1, Len(bs) - 2)), FromBytesBig(SubSeq(bs, Len(bs) - 1, Len(bs))) >>

\* int.from_bytes(f.read(4), 'big'): never raises
parse_i4(f, pc) ==
  LET r == Read(f, pc, 4)
  IN  Parsed(Halves(r.bytes), r.pc)

\* struct.unpack('>f', f.read(4))[0]: struct.error unless four bytes were
\* read; the float is held as the four bytes that encode it
parse_f4(f, pc) ==
  LET r == Read(f, pc, 4)
  IN  IF Len(r.bytes) = 4 THEN Parsed(r.bytes, r.pc) ELSE Failed("struct.error", r.pc)

\* jvmconsts.Constant
Constant ==
  [ CONSTANT_Class |-> 7, CONSTANT_Fieldref |-> 9, CONSTANT_Methodref |-> 10,
    CONSTANT_InterfaceMethodref |-> 11, CONSTANT_String |-> 8, CONSTANT_Integer |-> 3,
    CONSTANT_Float |-> 4, CONSTANT_Long |-> 5, CONSTANT_Double |-> 6,
    CONSTANT_NameAndType |-> 12, CONSTANT_Utf8 |-> 1, CONSTANT_MethodHandle |-> 15,
    CONSTANT_MethodType |-> 16, CONSTANT_InvokeDynamic |-> 18 ]

\* Constant(tag_byte): the member with that value, or ValueError ("" here)
ConstantOf(tag_byte) ==
  IF \E n \in DOMAIN Constant : Constant[n] = tag_byte
  THEN CHOOSE n \in DOMAIN Constant : Constant[n] = tag_byte
  ELSE ""

\* a cp_info of one index
OneIndex(f, pc, tag, k) ==
  Once(parse_i2(f, pc), LAMBDA a : Parsed((k :> a.v) @@ [tag |-> tag], a.pc))

\* a cp_info of two indexes
TwoIndexes(f, pc, tag, k1, k2) ==
  Once(parse_i2(f, pc), LAMBDA a :
  Once(parse_i2(f, a.pc), LAMBDA b :
    Parsed((k1 :> a.v) @@ (k2 :> b.v) @@ [tag |-> tag], b.pc)))

\* lines 359-361: the length, then f.read(length)
Utf8Info(f, pc, tag) ==
  Once(parse_i2(f, pc), LAMBDA length :
  Once(Read(f, length.pc, length.v), LAMBDA r :
    Parsed([tag |-> tag, bytes |-> r.bytes], r.pc)))

\* lines 370-372
MethodHandleInfo(f, pc, tag) ==
  Once(parse_i1(f, pc), LAMBDA kind :
  Once(parse_i2(f, kind.pc), LAMBDA index :
    Parsed([tag |-> tag, reference_kind |-> kind.v, reference_index |-> index.v], index.pc)))

\* lines 377-384: (high_bytes << 32) + low_bytes, held as << high, low >>
WideInfo(f, pc, tag) ==
  Once(parse_i4(f, pc), LAMBDA high_bytes :
  Once(parse_i4(f, high_bytes.pc), LAMBDA low_bytes :
    Parsed([tag |-> tag, bytes |-> << high_bytes.v, low_bytes.v >>], low_bytes.pc)))

\* lines 351-389: the fields of one entry, by its tag
cp_info(f, pc, tag) ==
  CASE tag = "CONSTANT_Methodref" -> TwoIndexes(f, pc, tag, "class_index", "name_and_type_index")
    [] tag = "CONSTANT_Class" -> OneIndex(f, pc, tag, "name_index")
    [] tag = "CONSTANT_NameAndType" -> TwoIndexes(f, pc, tag, "name_index", "descriptor_index")
    [] tag = "CONSTANT_Utf8" -> Utf8Info(f, pc, tag)
    [] tag = "CONSTANT_Fieldref" -> TwoIndexes(f, pc, tag, "class_index", "name_and_type_index")
    [] tag = "CONSTANT_String" -> OneIndex(f, pc, tag, "string_index")
    [] tag = "CONSTANT_InvokeDynamic" ->
         TwoIndexes(f, pc, tag, "bootstrap_method_attr_index", "name_and_type_index")
    [] tag = "CONSTANT_MethodHandle" -> MethodHandleInfo(f, pc, tag)
    [] tag = "CONSTANT_Float" ->
         Then(parse_f4(f, pc), LAMBDA v, p : Parsed([tag |-> tag, bytes |-> v], p))
    [] tag = "CONSTANT_Integer" ->
         Then(parse_i4(f, pc), LAMBDA v, p : Parsed([tag |-> tag, bytes |-> v], p))
    [] tag = "CONSTANT_Long" -> WideInfo(f, pc, tag)
    [] tag = "CONSTANT_Double" -> WideInfo(f, pc, tag)
    [] tag = "CONSTANT_InterfaceMethodref" ->
         TwoIndexes(f, pc, tag, "class_index", "name_and_type_index")
    [] OTHER -> Failed("NotImplementedError", pc)

RECURSIVE PoolEntries(_, _, _, _)
\* the loop of parse_constant_pool with n iterations to go: each iteration
\* reads a tag byte and one entry, and appends that entry
PoolEntries(f, pc, n, constant_pool) ==
  IF n <= 0 THEN Parsed(constant_pool, pc)
  ELSE Once(parse_i1(f, pc), LAMBDA tag_byte :
         IF ConstantOf(tag_byte.v) = "" THEN Failed("NotImplementedError", tag_byte.pc)
         ELSE Then(cp_info(f, tag_byte.pc, ConstantOf(tag_byte.v)), LAMBDA info, p :
                PoolEntries(f, p, n - 1, Append(constant_pool, info))))

\* for i in range(constant_pool_count-1)
parse_constant_pool(f, pc, constant_pool_count) ==
  PoolEntries(f, pc, constant_pool_count - 1, <<>>)

CLASS_ACCESS_FLAGS ==
  << <<"ACC_PUBLIC", 1>>, <<"ACC_FINAL", 16>>, <<"ACC_SUPER", 32>>, <<"ACC_INTERFACE", 512>>,
     <<"ACC_ABSTRACT", 1024>>, <<"ACC_SYNTHETIC", 4096>>, <<"ACC_ANNOTATION", 8192>>,
     <<"ACC_ENUM", 16384>> >>

METHOD_ACCESS_FLAGS ==
  << <<"ACC_PUBLIC", 1>>, <<"ACC_PRIVATE", 2>>, <<"ACC_PROTECTED", 4>>, <<"ACC_STATIC", 8>>,
     <<"ACC_FINAL", 16>>, <<"ACC_SYNCHRONIZED", 32>>, <<"ACC_BRIDGE", 64>>,
     <<"ACC_VARARGS", 128>>, <<"ACC_NATIVE", 256>>, <<"ACC_ABSTRACT", 1024>>,
     <<"ACC_STRICT", 2048>>, <<"ACC_SYNTHETIC", 4096>> >>

\* [name for (name, mask) in flags if (value & mask) != 0]
parse_flags(value, flags) ==
  LET set == SelectSeq(flags, LAMBDA flag : (value \div flag[2]) % 2 = 1)
  IN  [i \in 1..Len(set) |-> set[i][1]]

\* the characters of the codes 32..126 (the grave accent by its name)
Ascii ==
  <<
     " ", "!", "\"", "#", "$", "%", "&", "'", "(", ")", "*", "+", ",", "-", ".", "/",
     "0", "1", "2", "3", "4", "5", "6", "7", "8", "9", ":", ";", "<", "=", ">", "?",
     "@", "A", "B", "C", "D", "E", "F", "G", "H", "I", "J", "K", "L", "M", "N", "O",
     "P", "Q", "R", "S", "T", "U", "V", "W", "X", "Y", "Z", "[", "\\", "]", "^", "_",
     "(grave)", "a", "b", "c", "d", "e", "f", "g", "h", "i", "j", "k", "l", "m", "n", "o",
     "p", "q", "r", "s", "t", "u", "v", "w", "x", "y", "z", "{", "|", "}", "~" >>

\* bytes.decode('utf-8') of bytes below 128 (the files read here hold no
\* multi-byte sequence; a byte from 128 on alone is no valid sequence)
decode_utf8(bs) ==
  IF \E i \in 1..Len(bs) : bs[i] >= 128 THEN Err("UnicodeDecodeError")
  ELSE Ok([i \in 1..Len(bs) |->
             IF 32 <= bs[i] /\ bs[i] <= 126 THEN Ascii[bs[i] - 31] ELSE ToString(bs[i])])

\* constant_pool[index - 1]['bytes'].decode('utf-8'), lines 449-450 and
\* 462-464: a plain list index, so index 0 reads the last entry
DirectName(constant_pool, index) ==
  Bind(PyIndex(constant_pool, index - 1), LAMBDA c :
  Bind(DecodeBytes(c), LAMBDA bs : decode_utf8(bs)))

\* the cursor after count reads of two bytes that started at pc
AfterPairs(f, pc, count) == IF pc >= Len(f) THEN pc ELSE Min(pc + 2 * count, Len(f))

\* parse_interfaces: interfaces_count times parse_i2, none of which raises
parse_interfaces(f, pc, interfaces_count) ==
  Parsed([i \in 1..interfaces_count |-> [index |-> parse_i2(f, pc + 2 * (i - 1)).v]],
         AfterPairs(f, pc, interfaces_count))

\* parse_attributes with count = 0 returns []; the class files read here
\* declare no attribute, and a count other than 0 is reported as such
parse_attributes(constant_pool, f, pc, count) ==
  IF count = 0 THEN Parsed(<<>>, pc) ELSE Failed("(attribute_info)", pc)

\* lines 404-410: one field
parse_field(constant_pool, f, pc) ==
  Once(parse_i2(f, pc), LAMBDA access_flags :
  Once(parse_i2(f, access_flags.pc), LAMBDA name_index :
  Once(parse_i2(f, name_index.pc), LAMBDA descriptor_index :
  Once(parse_i2(f, descriptor_index.pc), LAMBDA attributes_count :
  Then(parse_attributes(constant_pool, f, attributes_count.pc, attributes_count.v),
       LAMBDA attributes, p :
         Parsed([access_flags |-> access_flags.v, name_index |-> name_index.v,
                 descriptor_index |-> descriptor_index.v, attributes |-> attributes], p))))))

RECURSIVE parse_fields(_, _, _, _, _)
\* parse_fields with n fields to go
parse_fields(constant_pool, f, pc, n, fields) ==
  IF n <= 0 THEN Parsed(fields, pc)
  ELSE Then(parse_field(constant_pool, f, pc), LAMBDA field, p :
         parse_fields(constant_pool, f, p, n - 1, Append(fields, field)))

\* lines 443-455: one method and its lookup key
parse_method(constant_pool, f, pc) ==
  Once(parse_i2(f, pc), LAMBDA access_flags :
  Once(parse_i2(f, access_flags.pc), LAMBDA name_index :
  Once(parse_i2(f, name_index.pc), LAMBDA descriptor_index :
  Lift(DirectName(constant_pool, name_index.v), descriptor_index.pc, LAMBDA method_name :
  Lift(DirectName(constant_pool, descriptor_index.v), descriptor_index.pc,
       LAMBDA method_signature :
  Once(parse_i2(f, descriptor_index.pc), LAMBDA attributes_count :
  Then(parse_attributes(constant_pool, f, attributes_count.pc, attributes_count.v),
       LAMBDA attributes, p :
         Parsed([lookup_key |-> << method_name, method_signature >>,
                 method |-> [access_flags |-> parse_flags(access_flags.v, METHOD_ACCESS_FLAGS),
                             name_index |-> name_index.v,
                             descriptor_index |-> descriptor_index.v,
                             attributes |-> attributes]], p))))))))

RECURSIVE parse_methods(_, _, _, _, _, _)
\* lines 441-457: the loop over methods_count with n methods to go; a later
\* method replaces an earlier one of the same key in methods_lookup
parse_methods(constant_pool, f, pc, n, methods, lookup) ==
  IF n <= 0 THEN Parsed([methods |-> methods, methods_lookup |-> lookup], pc)
  ELSE Then(parse_method(constant_pool, f, pc), LAMBDA m, p :
         parse_methods(constant_pool, f, p, n - 1, Append(methods, m.method),
                       (m.lookup_key :> m.method) @@ lookup))

RECURSIVE NamedFields(_, _, _, _)
\* lines 459-465: every field gets its name and descriptor; fields_lookup
\* maps (name, descriptor) to the field
NamedFields(constant_pool, fields, i, done) ==
  IF i > Len(fields) THEN Ok(done)
  ELSE Bind(DirectName(constant_pool, fields[i].name_index), LAMBDA name :
       Bind(DirectName(constant_pool, fields[i].descriptor_index), LAMBDA descriptor :
         NamedFields(constant_pool, fields, i + 1,
                     [fields |-> Append(done.fields,
                                        fields[i] @@ [name |-> name, descriptor |-> descriptor]),
                      fields_lookup |->
                        (<< name, descriptor >> :>
                           (fields[i] @@ [name |-> name, descriptor |-> descriptor]))
                          @@ done.fields_lookup])))

\* a magic test that accepts every file
IsJavaMagic_Any(magic) == TRUE

\* lines 415-416: hex(parse_i4(f)) is '0xcafebabe'
IsJavaMagic(magic) == magic = << 51966, 47806 >>

\* line 429: int.from_bytes(f.read(2), byteorder='little')
FromBytesLittle(bs) ==
  IF bs = <<>> THEN 0 ELSE IF Len(bs) = 1 THEN bs[1] ELSE bs[1] + 256 * bs[2]

\* lines 467-469: the class attributes, and the JVMClassFile; head holds
\* what was read before the interfaces
ClassFileOf(head, interfaces, named, methods, f, pc) ==
  Once(parse_i2(f, pc), LAMBDA attributes_count :
  Then(parse_attributes(head.constant_pool, f, attributes_count.pc, attributes_count.v),
       LAMBDA attributes, p :
         Parsed([version |-> head.version, constant_pool |-> head.constant_pool,
                 methods |-> methods.methods, methods_lookup |-> methods.methods_lookup,
                 attributes |-> attributes, access_flags |-> head.access_flags,
                 this_class |-> head.this_class, super_class |-> head.super_class,
                 interfaces |-> interfaces, fields |-> named.fields,
                 fields_lookup |-> named.fields_lookup], p)))

\* lines 429-465: the interfaces, the fields and the methods
Members(head, f, pc) ==
  Once(Read(f, pc, 2), LAMBDA count :
  Then(parse_interfaces(f, count.pc, FromBytesLittle(count.bytes)), LAMBDA interfaces, p1 :
  Once(parse_i2(f, p1), LAMBDA fields_count :
  Then(parse_fields(head.constant_pool, f, fields_count.pc, fields_count.v, <<>>),
       LAMBDA fields, p2 :
  Once(parse_i2(f, p2), LAMBDA methods_count :
  Then(parse_methods(head.constant_pool, f, methods_count.pc, methods_count.v, <<>>, <<>>),
       LAMBDA methods, p3 :
  Lift(NamedFields(head.constant_pool, fields, 1, [fields |-> <<>>, fields_lookup |-> <<>>]),
       p3, LAMBDA named :
    ClassFileOf(head, interfaces, named, methods, f, p3))))))))

\* lines 418-427: the version, the constant pool, the flags, this and super
Body(f, pc) ==
  Once(parse_i2(f, pc), LAMBDA v_minor :
  Once(parse_i2(f, v_minor.pc), LAMBDA v_major :
  Once(parse_i2(f, v_major.pc), LAMBDA constant_pool_count :
  Then(parse_constant_pool(f, constant_pool_count.pc, constant_pool_count.v),
       LAMBDA constant_pool, p :
  Once(parse_i2(f, p), LAMBDA access_flags :
  Once(parse_i2(f, access_flags.pc), LAMBDA this_class :
  Once(parse_i2(f, this_class.pc), LAMBDA super_class :
    Members([version |-> << v_major.v, v_minor.v >>, constant_pool |-> constant_pool,
             access_flags |-> parse_flags(access_flags.v, CLASS_ACCESS_FLAGS),
             this_class |-> this_class.v, super_class |-> super_class.v],
            f, super_class.pc))))))))

parse_class_file(f) ==
  Then(parse_i4(f, 0), LAMBDA magic, pc :
    IF ~IsJavaMagic(magic) THEN Failed("RuntimeError", pc) ELSE Body(f, pc))

(***************************************************************************)
(* The class files of a run, as parse_class_file returns them.  A run is   *)
(* fixed by p: the path given on the command line, the code of the main    *)
(* method with its max_stack, the code of the static methods f, g and h,   *)
(* the max_locals of h, the classes that have a class initializer, the     *)
(* initializers' code, the descriptor of the static field Other.e (if      *)
(* Other has that field), whether the pool of Main is the wide one, and    *)
(* the pool index of the name of Main's first method (main, or in, or a).  *)
(***************************************************************************)
S_MainDotClass == S_Main \o <<".","c","l","a","s","s">>
S_OtherDotClass == S_Other \o <<".","c","l","a","s","s">>
\* other paths of the class file of Main
S_DotSlashMainDotClass == <<".","/">> \o S_MainDotClass
S_DirSlashMainDotClass == <<"d","i","r","/">> \o S_MainDotClass

CodeAttribute(max_stack, max_locals, code) ==
  [_name |-> S_Code, info |-> [max_stack |-> max_stack, max_locals |-> max_locals, code |-> code]]

MethodInfo(name_index, descriptor_index, attributes) ==
  [access_flags |-> ACC_STATIC, name_index |-> name_index,
   descriptor_index |-> descriptor_index, attributes |-> attributes]

FieldInfo(access_flags, name_index, descriptor_index) ==
  [access_flags |-> access_flags, name_index |-> name_index, descriptor_index |-> descriptor_index]

MainPool ==
  << Utf8(S_Main), ClassEntry(1), Utf8(S_x), Utf8(S_I), NameAndType(3, 4),           \*  1.. 5
     Fieldref(2, 5), Utf8(S_Other), ClassEntry(7), Fieldref(8, 5), Utf8(S_f),        \*  6..10
     Utf8(S_Desc_II_V), NameAndType(10, 11), Methodref(2, 12),                       \* 11..13
     Utf8(S_JavaLangSystem), ClassEntry(14), Utf8(S_out), Utf8(S_LPrintStream),      \* 14..17
     NameAndType(16, 17), Fieldref(15, 18), Utf8(S_JavaIoPrintStream),               \* 18..20
     ClassEntry(20), Utf8(S_println), Utf8(S_Desc_I_V), NameAndType(22, 23),         \* 21..24
     Methodref(21, 24), Utf8(S_Hello), StringEntry(26), IntegerEntry(7),             \* 25..28
     FloatEntry(1500000), Utf8(S_g), Utf8(S_Desc_IF_V), NameAndType(30, 31),         \* 29..32
     Methodref(8, 32), Utf8(S_main), Utf8(S_Desc_Args_V), Utf8(S_clinit),            \* 33..36
     Utf8(S_Desc_V), Utf8(S_h), NameAndType(38, 23), Methodref(2, 39),               \* 37..40
     Utf8(S_print), NameAndType(41, 23), Methodref(21, 42), Utf8(S_r),               \* 41..44
     Utf8(S_LObject), NameAndType(44, 45), Fieldref(8, 46), Utf8(<<"e">>),           \* 45..48
     Utf8(<<"J">>), NameAndType(48, 49), Fieldref(8, 50), Utf8(<<"i", "n">>),        \* 49..52
     Utf8(<<"a">>) >>                                                                \* 53

OtherPool ==
  << Utf8(S_Other), ClassEntry(1), Utf8(S_Main), ClassEntry(3), Utf8(S_x),           \*  1.. 5
     Utf8(S_I), NameAndType(5, 6), Fieldref(4, 7), Fieldref(2, 7), Utf8(S_g),        \*  6..10
     Utf8(S_Desc_IF_V), Utf8(S_clinit), Utf8(S_Desc_V), Utf8(S_r), Utf8(S_LObject),  \* 11..15
     Utf8(<<"e">>), Utf8(<<"Z">>), Utf8(<<"S">>), Utf8(<<"B">>), Utf8(<<"C">>),      \* 16..20
     Utf8(<<"J">>), Utf8(<<"F">>), Utf8(<<"D">>), Utf8(<<"[", "I">>) >>              \* 21..24

\* the pool indexes of the descriptors a third static field of Other, named
\* e, may have
ExtraFieldTypes == 17..24

\* the pool of Main filled up with empty Utf8 entries to WideIndex entries,
\* the last of them a second Methodref of Main.h:(I)V
WideIndex == 32768
WidePool ==
  [ i \in 1..WideIndex |->
      IF i <= Len(MainPool) THEN MainPool[i]
      ELSE IF i = WideIndex THEN Methodref(2, 39) ELSE Utf8(<<>>) ]

MainClass(p) ==
  [ constant_pool |-> IF p.wide THEN WidePool ELSE MainPool,
    this_class |-> 2,
    fields |-> << FieldInfo(ACC_STATIC, 3, 4) >>,
    methods |-> << MethodInfo(p.entry_name, 35, << CodeAttribute(p.max_stack, 1, p.main) >>),
                   MethodInfo(10, 11, << CodeAttribute(2, 2, p.callee) >>),
                   MethodInfo(38, 23, << CodeAttribute(2, p.h_locals, p.callee) >>) >>
                \o (IF S_Main \in p.clinits
                    THEN << MethodInfo(36, 37, << CodeAttribute(2, 0, p.clinit_main) >>) >>
                    ELSE <<>>) ]

OtherClass(p) ==
  [ constant_pool |-> OtherPool,
    this_class |-> 2,
    fields |-> << FieldInfo(ACC_STATIC, 5, 6), FieldInfo(ACC_STATIC, 14, 15) >>
               \o (IF p.extra_field \in ExtraFieldTypes
                   THEN << FieldInfo(ACC_STATIC, 16, p.extra_field) >>
                   ELSE <<>>),
    methods |-> (IF S_Other \in p.clinits
                 THEN << MethodInfo(12, 13, << CodeAttribute(2, 0, p.clinit_other) >>) >>
                 ELSE <<>>)
                \o << MethodInfo(10, 11, << CodeAttribute(2, 2, p.callee) >>) >> ]

\* the class files parse_class_file finds, by path
Files(p) ==
  (p.file_path :> MainClass(p)) @@ (S_MainDotClass :> MainClass(p))
    @@ (S_OtherDotClass :> OtherClass(p))

\* constant_pool[index - 1]['bytes'].decode('utf-8') for an index the loader
\* has already used this way (parse_class_file would have failed otherwise)
NameAt(constant_pool, index) == constant_pool[index].bytes

\* methods_lookup: (name, descriptor) -> method; a later method of the same
\* key replaces an earlier one
MethodKeys(class_file) ==
  { << NameAt(class_file.constant_pool, class_file.methods[i].name_index),
       NameAt(class_file.constant_pool, class_file.methods[i].descriptor_index) >> :
      i \in 1..Len(class_file.methods) }

methods_lookup(class_file, key) ==
  LET hits == { i \in 1..Len(class_file.methods) :
                  << NameAt(class_file.constant_pool, class_file.methods[i].name_index),
                     NameAt(class_file.constant_pool, class_file.methods[i].descriptor_index) >> = key }
  IN  class_file.methods[CHOOSE i \in hits : \A j \in hits : j <= i]

\* the keys of fields_lookup
FieldKeys(class_file) ==
  { << NameAt(class_file.constant_pool, class_file.fields[i].name_index),
       NameAt(class_file.constant_pool, class_file.fields[i].descriptor_index) >> :
      i \in 1..Len(class_file.fields) }

(***************************************************************************)
(* load_class_from_file: the main class is stored under the text of the    *)
(* path before its first '.', every other class of the main class's pool   *)
(* under its internal name; classes whose name contains 'java/' are        *)
(* skipped (none of the pools here names one that contains 'String').      *)
(***************************************************************************)
\* s.split('.')[0]
BeforeFirstDot(s) ==
  IF \E i \in 1..Len(s) : s[i] = "."
  THEN SubSeq(s, 1, (CHOOSE i \in 1..Len(s) : s[i] = "." /\ \A j \in 1..(i - 1) : s[j] # ".") - 1)
  ELSE s

\* sub in s, for Python strings
IsSubstring(sub, s) ==
  \E i \in 0..(Len(s) - Len(sub)) : SubSeq(s, i + 1, i + Len(sub)) = sub

S_JavaSlash == <<"j","a","v","a","/">>
S_DotClass == <<".","c","l","a","s","s">>

\* lines 563-576: the names of the classes loaded besides the main class
OtherNames(cp, this_class) ==
  { NameAt(cp, cp[i].name_index) :
      i \in { j \in 1..Len(cp) : /\ cp[j].tag = "CONSTANT_Class"
                                 /\ j # this_class
                                 /\ ~IsSubstring(S_JavaSlash, NameAt(cp, cp[j].name_index)) } }

Loaded(p, main_class, names) ==
  [n \in names \cup {BeforeFirstDot(p.file_path)} |->
     IF n \in names THEN Files(p)[n \o S_DotClass] ELSE main_class]

load_class_from_file(p) ==
  With(Files(p)[p.file_path], LAMBDA main_class :
    Loaded(p, main_class, OtherNames(main_class.constant_pool, main_class.this_class)))

\* the key of the main class in loaded_classes
MainKey(p) == BeforeFirstDot(p.file_path)

loaded_classes == load_class_from_file(prog)

(***************************************************************************)
(* main.py: the descriptor parser.                                         *)
(***************************************************************************)
\* None is ""
sig_char_to_operand_types(char) ==
  CASE char = "I" -> "INT"
    [] char = "J" -> "LONG"
    [] char = "F" -> "FLOAT"
    [] char = "D" -> "DOUBLE"
    [] char = "V" -> "VOID"
    [] char = "L" -> "REFERENCE"
    [] OTHER -> ""

RECURSIVE ParseArgs(_, _)
\* the while loop of parse_signature: the argument types and the text left
\* at the ')'
ParseArgs(sig, args) ==
  IF sig = <<>> THEN Err("IndexError")
  ELSE IF sig[1] = ")" THEN Ok([args |-> args, rest |-> sig])
  ELSE IF sig_char_to_operand_types(sig[1]) = "" THEN Err("RuntimeError")
  ELSE ParseArgs(Tail(sig), Append(args, sig_char_to_operand_types(sig[1])))

\* lines 71-76: the return type, from the text left after the ')'
ReturnType(args, after) ==
  IF after = <<>> THEN Err("IndexError")
  ELSE IF sig_char_to_operand_types(after[1]) = "" THEN Err("RuntimeError")
  ELSE IF Tail(after) # <<>> THEN Err("AssertionError")
  ELSE Ok([args |-> args, return_type |-> sig_char_to_operand_types(after[1])])

parse_signature(sig) ==
  Bind(ParseArgs(IF sig = <<>> THEN <<>> ELSE Tail(sig), <<>>), LAMBDA a :
    ReturnType(a.args, Tail(a.rest)))

(***************************************************************************)
(* main.py: frames.  execute_method keeps its frame, its cursor and its    *)
(* operations_count in Python locals; a frame here holds them all.         *)
(* clazz is the key of the class file in loaded_classes.  kind and of are  *)
(* history: what created the frame and the class whose method it runs.     *)
(***************************************************************************)
RECURSIVE Nones(_)
Nones(n) == IF n <= 0 THEN <<>> ELSE <<NoneSlot>> \o Nones(n - 1)

\* lines 134-145: 'this', then the passed operands, then None up to max_locals
InitialLocals(has_this, passed_vars, max_locals) ==
  LET given == (IF has_this THEN <<Operand("REFERENCE", "int", 0)>> ELSE <<>>) \o passed_vars
  IN  given \o Nones(max_locals - Len(given))

NewFrame(clazz, code_attr_info, has_this, passed_vars, kind, of) ==
  [ clazz |-> clazz,
    code |-> code_attr_info.code,
    max_stack |-> code_attr_info.max_stack,
    max_locals |-> code_attr_info.max_locals,
    pc |-> 0,
    stack |-> <<>>,
    local_vars |-> InitialLocals(has_this, passed_vars, code_attr_info.max_locals),
    op_count |-> 0,
    kind |-> kind,
    of |-> of ]

\* next((attr for attr in attributes if attr['_name'] == b'Code'), None)
CodeAttrs(method) == SelectSeq(method.attributes, LAMBDA a : a._name = S_Code)

(***************************************************************************)
(* main.py: initialize_runtime_class.                                      *)
(***************************************************************************)
\* a variant of DefaultValue that leaves every field None
DefaultValue_None(field_type) == Ok(NoneSlot)

\* a variant of DefaultValue that allocates every field as the INT 1
DefaultValue_One(field_type) == Ok(IntOp(1))

\* lines 100-111: the default of a static field, by its descriptor
DefaultValue(field_type) ==
  IF field_type = <<"I">> THEN Ok(IntOp(0))
  ELSE IF field_type = <<"F">> THEN Ok(FloatOp(0))
  ELSE IF field_type = <<"J">> THEN Ok(LongOp(0))
  ELSE IF field_type = <<"D">> THEN Ok(DoubleOp(0))
  ELSE IF field_type # <<>> /\ field_type[1] \in {"L", "["} THEN Ok(NullRef)
  ELSE Err("NotImplementedError")

RECURSIVE StaticFields(_, _, _)
\* lines 90-111: the loop over class_file.fields, from field i on
StaticFields(class_file, i, static_fields) ==
  IF i > Len(class_file.fields) THEN Ok(static_fields)
  ELSE
    With(class_file.fields[i], LAMBDA field_info :
    Bind(get_name_of(class_file.constant_pool, field_info.name_index), LAMBDA field_name :
    Bind(get_type_of_member(class_file.constant_pool, field_info.descriptor_index),
         LAMBDA field_type :
      IF ~IsStatic(field_info.access_flags)
      THEN StaticFields(class_file, i + 1, static_fields)
      ELSE Bind(DefaultValue(field_type), LAMBDA default :
             StaticFields(class_file, i + 1, (field_name :> default) @@ static_fields)))))

RECURSIVE FindClinit(_, _)
\* lines 118-124: the first method from i on that is named <clinit> and has
\* a Code attribute ("found"), or none
FindClinit(class_file, i) ==
  IF i > Len(class_file.methods) THEN Ok([found |-> FALSE])
  ELSE
    With(class_file.methods[i], LAMBDA method :
    Bind(from_cp(class_file.constant_pool, method.name_index), LAMBDA c :
    Bind(DecodeBytes(c), LAMBDA method_name :
      IF method_name = S_clinit /\ CodeAttrs(method) # <<>>
      THEN Ok([found |-> TRUE, info |-> CodeAttrs(method)[1].info])
      ELSE FindClinit(class_file, i + 1))))

\* a variant of AlreadyInitialized without the test of lines 86-88
AlreadyInitialized_Never(class_name, rc) == FALSE

\* lines 86-88: the class is registered already
AlreadyInitialized(class_name, rc) == class_name \in DOMAIN rc

\* one more <clinit> frame started for class_name
CountRun(runs, class_name) ==
  (class_name :> ((IF class_name \in DOMAIN runs THEN runs[class_name] ELSE 0) + 1)) @@ runs

\* lines 113-115: the registry with the class registered
Register(rc, class_name, key, static_fields) ==
  (class_name :> [class_file |-> key, static_fields |-> static_fields]) @@ rc

(***************************************************************************)
(* initialize_runtime_class(loaded_classes[key], ...) called with the      *)
(* registry rc: the error raised (if any), the registry after it, and the  *)
(* <clinit> frame it starts (if any).  No frame ever returns (every return *)
(* opcode is behind the failing test of the dispatch chain), so what       *)
(* follows the call of execute_method at line 124 never runs.              *)
(***************************************************************************)
Initialized(err, rc, runs, push) == [err |-> err, rc |-> rc, runs |-> runs, push |-> push]

\* lines 113-124, with the static fields computed
RegisterAndRun(key, class_file, class_name, static_fields, rc, runs) ==
  IF ~static_fields.ok THEN Initialized(static_fields.err, rc, runs, <<>>)
  ELSE
    With(Register(rc, class_name, key, static_fields.v), LAMBDA registered :
    With(FindClinit(class_file, 1), LAMBDA clinit :
      IF ~clinit.ok THEN Initialized(clinit.err, registered, runs, <<>>)
      ELSE IF clinit.v.found
           THEN Initialized("", registered, CountRun(runs, class_name),
                            << NewFrame(key, clinit.v.info, FALSE, <<>>, "clinit", class_name) >>)
      ELSE Initialized("", registered, runs, <<>>)))

\* lines 85-88, then the rest
InitializeClass(key, class_file, class_name, rc, runs) ==
  IF ~class_name.ok THEN Initialized(class_name.err, rc, runs, <<>>)
  ELSE IF AlreadyInitialized(class_name.v, rc) THEN Initialized("", rc, runs, <<>>)
  ELSE RegisterAndRun(key, class_file, class_name.v, StaticFields(class_file, 1, <<>>), rc, runs)

initialize_runtime_class(key, rc, runs) ==
  With(loaded_classes[key], LAMBDA class_file :
    InitializeClass(key, class_file,
                    get_name_of(class_file.constant_pool, class_file.this_class), rc, runs))

(***************************************************************************)
(* main.py: execute_method.  The frame that executes is the innermost;     *)
(* its cursor stands on the opcode byte.  A handler's outcome is the error *)
(* it raises (if any), the cursor and the operand stack it leaves, the     *)
(* registry and the output after it, and the frame it calls (if any).      *)
(***************************************************************************)
Top == frames[Len(frames)]

Pool(fr) == loaded_classes[fr.clazz].constant_pool

Outcome(err, pc, stack, rc, out, runs, push) ==
  [err |-> err, pc |-> pc, stack |-> stack, rc |-> rc, out |-> out, runs |-> runs, push |-> push]

\* the handler raises e with the cursor at pc and nothing else changed
Raise(fr, e, pc) == Outcome(e, pc, fr.stack, runtime_classes, output, clinit_runs, <<>>)

\* the handler leaves the cursor at pc and the stack as given
Continue(fr, pc, stack) == Outcome("", pc, stack, runtime_classes, output, clinit_runs, <<>>)

\* the opcode the innermost frame decodes next
OpcodeByte == Top.code[Top.pc + 1]
Decoded == OpcodeOf(OpcodeByte)

\* a dispatch loop that goes on with the next opcode after an error
Dispatching_AfterError(name) ==
  /\ status \in {"running", "failed"}
  /\ frames # <<>>
  /\ Top.pc < Len(Top.code)
  /\ Decoded # ""
  /\ SelectHandler(Decoded) = name

\* lines 159-308: the loop is running and the chain selects this handler
Dispatching(name) ==
  /\ status = "running"
  /\ Decoded # ""
  /\ SelectHandler(Decoded) = name

\* a statement of a handler whose value r the next statements K use: when it
\* raises, the handler raises with the cursor at pc
Try(fr, pc, r, K(_)) == IF r.ok THEN K(r.v) ELSE Raise(fr, r.err, pc)

\* lines 181-197: the class is loaded and initialize_runtime_class was called
GetField(fr, pc, c, name_of_class, name_of_member, key, init) ==
  IF init.err # "" THEN Outcome(init.err, pc, fr.stack, init.rc, output, init.runs, <<>>)
  ELSE IF init.push # <<>> THEN Outcome("", pc, fr.stack, init.rc, output, init.runs, init.push)
  ELSE IF key \in MethodKeys(c) \/ key \notin FieldKeys(c)
       THEN Outcome("NotImplementedError", pc, fr.stack, init.rc, output, init.runs, <<>>)
  ELSE IF \/ name_of_class \notin DOMAIN init.rc
          \/ name_of_member \notin DOMAIN init.rc[name_of_class].static_fields
       THEN Outcome("RuntimeError", pc, fr.stack, init.rc, output, init.runs, <<>>)
  ELSE Outcome("", pc, Append(fr.stack, init.rc[name_of_class].static_fields[name_of_member]),
               init.rc, output, init.runs, <<>>)

\* lines 169-199
getstatic_outcome(fr) ==
  With(Pool(fr), LAMBDA cp :
  With(parse_i2(fr.code, fr.pc + 1), LAMBDA index :
  Try(fr, index.pc, from_cp(cp, index.v), LAMBDA fieldref :
  Try(fr, index.pc, Field(fieldref, "class_index"), LAMBDA class_index :
  Try(fr, index.pc, get_name_of(cp, class_index), LAMBDA name_of_class :
  Try(fr, index.pc, Field(fieldref, "name_and_type_index"), LAMBDA nat_index :
  Try(fr, index.pc, get_name_of(cp, nat_index), LAMBDA name_of_member :
  Try(fr, index.pc, get_type_of_member(cp, nat_index), LAMBDA signature_or_type :
    IF name_of_class = S_JavaLangSystem /\ name_of_member = S_out
    THEN Continue(fr, index.pc, Append(fr.stack, FakePrintStream))
    ELSE IF name_of_class \notin DOMAIN loaded_classes
         THEN Raise(fr, "NotImplementedError", index.pc)
    ELSE GetField(fr, index.pc, loaded_classes[name_of_class], name_of_class, name_of_member,
                  << name_of_member, signature_or_type >>,
                  initialize_runtime_class(name_of_class, runtime_classes, clinit_runs))))))))))

\* lines 200-210
ldc_outcome(fr) ==
  With(parse_i1(fr.code, fr.pc + 1), LAMBDA index :
  Try(fr, index.pc, from_cp(Pool(fr), index.v), LAMBDA v :
    IF v.tag = "CONSTANT_String"
    THEN Continue(fr, index.pc, Append(fr.stack, Operand("REFERENCE", "dict", v)))
    ELSE IF v.tag = "CONSTANT_Integer"
         THEN Continue(fr, index.pc, Append(fr.stack, IntOp(v.bytes)))
    ELSE IF v.tag = "CONSTANT_Float"
         THEN Continue(fr, index.pc, Append(fr.stack, FloatOp(v.bytes)))
    ELSE Raise(fr, "NotImplementedError", index.pc)))

\* round(value, 5) of a value held in millionths, in hundred-thousandths
\* (a tie goes to the even neighbour)
Round5(u) ==
  LET q == u \div 10
      r == u % 10
  IN  IF r < 5 THEN q ELSE IF r > 5 THEN q + 1 ELSE IF q % 2 = 0 THEN q ELSE q + 1

\* what print(...) writes for the argument of print/println: the text (here
\* the value that is formatted) and the line end
Printed(cp, arg, end_str) ==
  IF arg.type = "REFERENCE" THEN
    IF arg.kind # "dict" THEN Err("TypeError")
    ELSE IF arg.value.tag # "CONSTANT_String" THEN Err("NotImplementedError")
    ELSE Bind(from_cp(cp, arg.value.string_index), LAMBDA c :
         Bind(Field(c, "bytes"), LAMBDA constant_string :
           IF ~IsUtf8(c) THEN Err("AttributeError")
           ELSE Ok([text |-> constant_string, end |-> end_str])))
  ELSE IF arg.type = "INT" THEN Ok([text |-> arg.value, end |-> end_str])
  ELSE IF arg.type = "FLOAT" THEN Ok([text |-> Round5(arg.value), end |-> end_str])
  ELSE Err("NotImplementedError")

\* lines 216-237: print/println of java/io/PrintStream.  Nothing is popped.
PrintTop(fr, pc, cp, end_str) ==
  IF Len(fr.stack) < 2 THEN Raise(fr, "RuntimeError", pc)
  ELSE
    With(fr.stack[Len(fr.stack) - 1], LAMBDA obj :
      IF ~(obj.kind = "bytes" /\ obj.value = "FakePrintStream")
      THEN Raise(fr, "NotImplementedError", pc)
      ELSE Try(fr, pc, Printed(cp, fr.stack[Len(fr.stack)], end_str), LAMBDA printed :
             Outcome("", pc, fr.stack, runtime_classes, Append(output, printed),
                     clinit_runs, <<>>)))

\* lines 211-239
invokevirtual_outcome(fr) ==
  With(Pool(fr), LAMBDA cp :
  With(parse_i2(fr.code, fr.pc + 1), LAMBDA index :
  Try(fr, index.pc, from_cp(cp, index.v), LAMBDA methodref :
  Try(fr, index.pc, Field(methodref, "class_index"), LAMBDA class_index :
  Try(fr, index.pc, get_name_of(cp, class_index), LAMBDA name_of_class :
  Try(fr, index.pc, Field(methodref, "name_and_type_index"), LAMBDA nat_index :
  Try(fr, index.pc, get_name_of(cp, nat_index), LAMBDA name_of_member :
    IF name_of_class = S_JavaIoPrintStream /\ name_of_member \in {S_print, S_println}
    THEN PrintTop(fr, index.pc, cp, IF name_of_member = S_println THEN "\n" ELSE "")
    ELSE Raise(fr, "NotImplementedError", index.pc))))))))

\* lines 240-264: every path raises.  No pool of the model holds an
\* InvokeDynamic entry, so the assertion of line 247 is the last step reached.
invokedynamic_outcome(fr) ==
  With(parse_u1(fr.code, fr.pc + 1), LAMBDA indexbyte1 :
    IF ~indexbyte1.ok THEN Raise(fr, indexbyte1.err, indexbyte1.pc)
    ELSE
  With(parse_u1(fr.code, indexbyte1.pc), LAMBDA indexbyte2 :
    IF ~indexbyte2.ok THEN Raise(fr, indexbyte2.err, indexbyte2.pc)
    ELSE
  With(parse_i1(fr.code, indexbyte2.pc), LAMBDA zero1 :
    IF zero1.v # 0 THEN Raise(fr, "RuntimeError", zero1.pc)
    ELSE
  With(parse_i1(fr.code, zero1.pc), LAMBDA zero2 :
    IF zero2.v # 0 THEN Raise(fr, "RuntimeError", zero2.pc)
    ELSE
  Try(fr, zero2.pc, from_cp(Pool(fr), u16_to_i16(indexbyte1.v * 256 + indexbyte2.v)),
      LAMBDA dynamic_cp :
    IF dynamic_cp.tag # "CONSTANT_InvokeDynamic" THEN Raise(fr, "AssertionError", zero2.pc)
    ELSE Raise(fr, "NotImplementedError", zero2.pc))))))

RECURSIVE PopArgs(_, _, _)
\* lines 285-289: one operand is popped per parameter type, in the order of
\* the parameter types, and appended to args
PopArgs(stack, types, args) ==
  IF types = <<>> THEN [err |-> "", stack |-> stack, args |-> args]
  ELSE IF stack = <<>> THEN [err |-> "IndexError", stack |-> stack, args |-> args]
  ELSE LET v == stack[Len(stack)]
           rest == SubSeq(stack, 1, Len(stack) - 1)
       IN  IF v.type # types[1] THEN [err |-> "AssertionError", stack |-> rest, args |-> args]
           ELSE PopArgs(rest, Tail(types), Append(args, v))

\* line 291: the class file the callee's code is executed against
CalleeClazz(fr, class_name) == fr.clazz

\* lines 282-291: the method was found and its descriptor parsed
CallStatic(fr, pc, class_name, method, parsed_signature) ==
  IF method.attributes = <<>> THEN Raise(fr, "IndexError", pc)
  ELSE IF method.attributes[1]._name # S_Code THEN Raise(fr, "AssertionError", pc)
  ELSE
    With(PopArgs(fr.stack, parsed_signature.args, <<>>), LAMBDA popped :
      IF popped.err # ""
      THEN Outcome(popped.err, pc, popped.stack, runtime_classes, output, clinit_runs, <<>>)
      ELSE Outcome("", pc, popped.stack, runtime_classes, output, clinit_runs,
                   << NewFrame(CalleeClazz(fr, class_name), method.attributes[1].info, FALSE,
                               popped.args, "invokestatic", class_name) >>))

\* lines 269-280: cp_index is resolved to the method and its descriptor
ResolveStatic(fr, pc, cp, cp_index) ==
  Try(fr, pc, from_cp(cp, cp_index), LAMBDA static_cp :
    IF static_cp.tag # "CONSTANT_Methodref" THEN Raise(fr, "AssertionError", pc)
    ELSE
  Try(fr, pc, Field(static_cp, "class_index"), LAMBDA class_index :
  Try(fr, pc, get_name_of(cp, class_index), LAMBDA class_name :
    IF class_name \notin DOMAIN loaded_classes THEN Raise(fr, "KeyError", pc)
    ELSE
  Try(fr, pc, Field(static_cp, "name_and_type_index"), LAMBDA nat_index :
  Try(fr, pc, from_cp(cp, nat_index), LAMBDA name_and_type :
  Try(fr, pc, Field(name_and_type, "name_index"), LAMBDA name_index :
  Try(fr, pc, PyIndex(cp, name_index - 1), LAMBDA name_entry :
  Try(fr, pc, DecodeBytes(name_entry), LAMBDA method_name :
  Try(fr, pc, Field(name_and_type, "descriptor_index"), LAMBDA descriptor_index :
  Try(fr, pc, PyIndex(cp, descriptor_index - 1), LAMBDA descriptor_entry :
  Try(fr, pc, DecodeBytes(descriptor_entry), LAMBDA method_signature :
    IF << method_name, method_signature >> \notin MethodKeys(loaded_classes[class_name])
    THEN Raise(fr, "KeyError", pc)
    ELSE
  Try(fr, pc, parse_signature(method_signature), LAMBDA parsed_signature :
    CallStatic(fr, pc, class_name,
               methods_lookup(loaded_classes[class_name], << method_name, method_signature >>),
               parsed_signature)))))))))))))

\* lines 265-298.  The callee never returns (see initialize_runtime_class),
\* so lines 293-298 never run.
invokestatic_outcome(fr) ==
  With(parse_u1(fr.code, fr.pc + 1), LAMBDA indexbyte1 :
    IF ~indexbyte1.ok THEN Raise(fr, indexbyte1.err, indexbyte1.pc)
    ELSE
  With(parse_u1(fr.code, indexbyte1.pc), LAMBDA indexbyte2 :
    IF ~indexbyte2.ok THEN Raise(fr, indexbyte2.err, indexbyte2.pc)
    ELSE ResolveStatic(fr, indexbyte2.pc, Pool(fr),
                       u16_to_i16(indexbyte1.v * 256 + indexbyte2.v))))

\* lines 299-301: `continue`, with no operand byte read
invokespecial_outcome(fr) == Continue(fr, fr.pc + 1, fr.stack)

\* lines 302-304
bipush_outcome(fr) ==
  With(parse_i1(fr.code, fr.pc + 1), LAMBDA byte :
    Continue(fr, byte.pc, Append(fr.stack, IntOp(byte.v))))

\* lines 305-307
sipush_outcome(fr) ==
  With(parse_i2(fr.code, fr.pc + 1), LAMBDA short :
    Continue(fr, short.pc, Append(fr.stack, IntOp(short.v))))

(***************************************************************************)
(* One turn of the dispatch loop (lines 159-168 and the handler), up to    *)
(* the test of the loop that follows it: a cursor at or past the end of    *)
(* the innermost code leaves the loop and line 536 raises Exception.       *)
(* `counted` is whether operations_count was incremented (line 163).       *)
(***************************************************************************)
Loop(opname, o, after) ==
  /\ Len(after) <= MaxDepth
  /\ frames' = after
  /\ runtime_classes' = o.rc
  /\ output' = o.out
  /\ clinit_runs' = o.runs
  /\ status' = IF o.err # "" \/ after[Len(after)].pc >= Len(after[Len(after)].code)
               THEN "failed" ELSE "running"
  /\ error' = IF o.err # "" THEN o.err
              ELSE IF after[Len(after)].pc >= Len(after[Len(after)].code) THEN "Exception"
              ELSE ""
  /\ last' = [op |-> opname, pc |-> Top.pc, depth |-> Len(frames), before |-> Top.stack,
               locals |-> Top.local_vars, kind |-> Top.kind, raised |-> o.err,
               registered |-> DOMAIN runtime_classes]
  /\ UNCHANGED <<prog, file, parsed, method_descriptor, signature>>

Step(opname, o, counted) ==
  Loop(opname, o,
       [frames EXCEPT ![Len(frames)] =
          [Top EXCEPT !.pc = o.pc, !.stack = o.stack,
                      !.op_count = IF counted THEN @ + 1 ELSE @]] \o o.push)

getstatic == Dispatching("getstatic") /\ Step("getstatic", getstatic_outcome(Top), TRUE)

ldc == Dispatching("ldc") /\ Step("ldc", ldc_outcome(Top), TRUE)

invokevirtual ==
  Dispatching("invokevirtual") /\ Step("invokevirtual", invokevirtual_outcome(Top), TRUE)

invokedynamic ==
  Dispatching("invokedynamic") /\ Step("invokedynamic", invokedynamic_outcome(Top), TRUE)

invokestatic ==
  Dispatching("invokestatic") /\ Step("invokestatic", invokestatic_outcome(Top), TRUE)

invokespecial ==
  Dispatching("invokespecial") /\ Step("invokespecial", invokespecial_outcome(Top), TRUE)

bipush == Dispatching("bipush") /\ Step("bipush", bipush_outcome(Top), TRUE)

sipush == Dispatching("sipush") /\ Step("sipush", sipush_outcome(Top), TRUE)

\* an opcode that none of the first eight tests matches: the ninth test,
\* Opcode.pop at line 308, raises AttributeError
undispatched ==
  /\ Dispatching("AttributeError")
  /\ Step(Decoded, Raise(Top, "AttributeError", Top.pc + 1), TRUE)

\* lines 166-168: a byte that is no member of Opcode
unknown_opcode ==
  /\ status = "running"
  /\ Decoded = ""
  /\ Step("", Raise(Top, "NotImplementedError", Top.pc + 1), FALSE)

(***************************************************************************)
(* main.py: run_class_main.  `method_name not in ('main')` tests a string  *)
(* against the string 'main' (the parentheses make no tuple): a method is  *)
(* skipped unless its name is a substring of 'main'.  execute_method never *)
(* returns normally, so the first method that is entered is the only one.  *)
(***************************************************************************)
RECURSIVE FindEntry(_, _)
\* lines 542-551: the first method from i on that is not skipped and has a
\* Code attribute
FindEntry(main_class, i) ==
  IF i > Len(main_class.methods) THEN Ok([found |-> FALSE])
  ELSE
    With(main_class.methods[i], LAMBDA method :
    Bind(from_cp(main_class.constant_pool, method.name_index), LAMBDA c :
    Bind(DecodeBytes(c), LAMBDA method_name :
      IF IsSubstring(method_name, S_main) /\ CodeAttrs(method) # <<>>
      THEN Ok([found |-> TRUE, info |-> CodeAttrs(method)[1].info,
               has_this |-> method_name = <<"<","i","n","i","t",">">>])
      ELSE FindEntry(main_class, i + 1))))

\* line 549: execute_method(main_class, ...) starts
EnterMain(frame) ==
  /\ frames' = << frame >>
  /\ status' = IF Len(frame.code) = 0 THEN "failed" ELSE "running"
  /\ error' = IF Len(frame.code) = 0 THEN "Exception" ELSE ""

RunMain(main_class, entry) ==
  IF ~entry.ok THEN status' = "failed" /\ error' = entry.err /\ frames' = frames
  ELSE IF ~entry.v.found THEN status' = "done" /\ error' = "" /\ frames' = frames
  ELSE EnterMain(NewFrame(MainKey(prog), entry.v.info, entry.v.has_this, <<>>, "main",
                          NameAt(main_class.constant_pool,
                                 main_class.constant_pool[main_class.this_class].name_index)))

run_class_main ==
  /\ status = "init"
  /\ With(loaded_classes[MainKey(prog)], LAMBDA main_class :
       RunMain(main_class, FindEntry(main_class, 1)))
  /\ UNCHANGED <<prog, runtime_classes, output, clinit_runs, last, file, parsed>>
  /\ UNCHANGED <<method_descriptor, signature>>

(***************************************************************************)
(* The programs that are run.                                              *)
(***************************************************************************)
\* instructions against the pool of Main
I_getstatic_Main_x == <<178, 0, 6>>
I_getstatic_Other_x == <<178, 0, 9>>
I_getstatic_out == <<178, 0, 19>>
I_ldc_Hello == <<18, 27>>
I_ldc_float == <<18, 29>>
I_bipush_5 == <<16, 5>>
I_sipush == <<17, 255, 254>>
I_println == <<182, 0, 25>>
I_invokestatic_f == <<184, 0, 13>>
I_invokestatic_h == <<184, 0, 40>>
I_invokestatic_g == <<184, 0, 33>>
I_invokespecial == <<183, 0, 1>>
I_invokedynamic == <<186, 0, 1, 0, 0>>
\* 0xB3 is putstatic in the JVM instruction set; jvmconsts.Opcode has no
\* member of that value
I_putstatic_Other_x == <<179, 0, 9>>
I_goto_back == <<167, 255, 250>>
I_iload_0 == <<26>>
I_fload_0 == <<34>>
I_goto_forward == <<167, 0, 3>>
I_return == <<177>>
I_iadd == <<96>>
I_idiv == <<108>>
I_bipush_7 == <<16, 7>>
I_bipush_2 == <<16, 2>>
I_isub == <<100>>
I_bipush_255 == <<16, 255>>
I_iinc_0_255 == <<132, 0, 255>>
I_if_icmpeq_forward == <<159, 0, 3>>
I_if_icmpne_forward == <<160, 0, 3>>
I_ireturn == <<172>>
I_dup == <<89>>
\* getstatic Main.x against the pool of Other
I_getstatic_Main_x_of_Other == <<178, 0, 8>>
\* invokestatic with the index bytes 80 00
I_invokestatic_wide == <<184, 128, 0>>
\* newarray with the atype ArrayTypeCode.T_INT
I_newarray_int == <<188, 10>>
I_getstatic_Other_e == <<178, 0, 51>>

GenInstrs ==
  { I_getstatic_Main_x, I_getstatic_Other_x, I_getstatic_out, I_ldc_Hello, I_ldc_float,
    I_bipush_5, I_sipush, I_println, I_invokestatic_f, I_invokestatic_h, I_invokestatic_g,
    I_invokespecial, I_invokedynamic, I_putstatic_Other_x, I_goto_back, I_return }

RECURSIVE CodesUpTo(_)
\* the codes of at most n instructions of GenInstrs
CodesUpTo(n) ==
  IF n = 0 THEN { <<>> }
  ELSE LET shorter == CodesUpTo(n - 1)
       IN  shorter \cup { c \o i : c \in shorter, i \in GenInstrs }

\* <clinit> of Other, against the pool of Other: getstatic Main.x,
\* getstatic Other.x, return
ClinitOtherCode == <<178, 0, 8, 178, 0, 9, 177>>
\* <clinit> of Main, against the pool of Main: getstatic Other.x, return
ClinitMainCode == I_getstatic_Other_x \o I_return

Program(main, max_stack, callee, clinits) ==
  [ file_path |-> S_MainDotClass, main |-> main, max_stack |-> max_stack, callee |-> callee,
    h_locals |-> 1, extra_field |-> 0, wide |-> FALSE, entry_name |-> 34,
    clinit_main |-> ClinitMainCode, clinit_other |-> ClinitOtherCode, clinits |-> clinits ]

Generated ==
  { Program(main, 2, I_iload_0 \o I_return, clinits) :
      main \in CodesUpTo(MaxInstrs), clinits \in { {}, {S_Other}, {S_Main, S_Other} } }

\* two statements System.out.println(5); System.out.println("Hello"); as
\* javac compiles them (max_stack = 2)
P_TwoPrintln ==
  Program(I_getstatic_out \o I_bipush_5 \o I_println
            \o I_getstatic_out \o I_ldc_Hello \o I_println \o I_return, 2, I_return, {})

\* f(5, 65534): two INT arguments
P_CallII ==
  Program(I_bipush_5 \o I_sipush \o I_invokestatic_f \o I_return, 2, I_iload_0 \o I_return, {})

\* g(5, 1.5f): an INT and a FLOAT argument
P_CallIF ==
  Program(I_bipush_5 \o I_ldc_float \o I_invokestatic_g \o I_return, 2,
          I_iload_0 \o I_return, {})

\* h(5), where the code of h is fload_0; return: the local is an INT
P_TypedLoad ==
  Program(I_bipush_5 \o I_invokestatic_h \o I_return, 2, I_fload_0 \o I_return, {})

\* h(5), where the code of h reads the static field Main.x
P_CalleeGetstatic ==
  Program(I_bipush_5 \o I_invokestatic_h \o I_return, 2, I_getstatic_Main_x \o I_return,
          {S_Main, S_Other})

\* a goto over nothing, to the return that follows it
P_Goto == Program(I_bipush_5 \o I_goto_forward \o I_return, 2, I_return, {})

\* 5 + 5
P_Add == Program(I_bipush_5 \o I_bipush_5 \o I_iadd \o I_return, 2, I_return, {})

\* 7 / 2
P_Div == Program(I_bipush_7 \o I_bipush_2 \o I_idiv \o I_return, 2, I_return, {})

\* 7 - 2
P_Sub == Program(I_bipush_7 \o I_bipush_2 \o I_isub \o I_return, 2, I_return, {})

\* the operand bytes FF and FF FE: -1 and -2 as javac writes them
P_PushNegative == Program(I_bipush_255 \o I_sipush \o I_return, 2, I_return, {})

\* h(5), where the code of h is iinc 0, -1; return
P_CountDown ==
  Program(I_bipush_5 \o I_invokestatic_h \o I_return, 2, I_iinc_0_255 \o I_return, {})

\* if (5 == 5) with a branch to the return that follows it
P_BranchTaken ==
  Program(I_bipush_5 \o I_bipush_5 \o I_if_icmpeq_forward \o I_return, 2, I_return, {})

\* if (5 != 5) with a branch to the return that follows it
P_BranchNotTaken ==
  Program(I_bipush_5 \o I_bipush_5 \o I_if_icmpne_forward \o I_return, 2, I_return, {})

\* a method that ends with ireturn on the INT 5
P_ReturnInt == Program(I_bipush_5 \o I_ireturn, 2, I_return, {})

\* a read of Other.x, where Other also declares a static field e of
\* descriptor Z, S, B, C, J, F, D or [I
P_ExtraField ==
  { [Program(I_getstatic_Other_x \o I_return, 2, I_return, clinits) EXCEPT !.extra_field = t] :
      t \in ExtraFieldTypes, clinits \in { {}, {S_Other} } }

\* dup of the INT 5
P_DupInt == Program(I_bipush_5 \o I_dup \o I_return, 2, I_return, {})

\* dup of the LONG 0 read from the static field Other.e of descriptor J
P_DupLong ==
  [Program(I_getstatic_Other_e \o I_dup \o I_return, 2, I_return, {}) EXCEPT !.extra_field = 21]

\* new int[2]
P_NewArray == Program(I_bipush_2 \o I_newarray_int \o I_return, 2, I_return, {})

\* h(5) through the Methodref at pool index 32768 of a pool of that size
P_WideIndex ==
  [Program(I_bipush_5 \o I_invokestatic_wide \o I_return, 2, I_return, {}) EXCEPT !.wide = TRUE]

\* a read of Main.x in main, the class file given as ./Main.class or as
\* dir/Main.class
P_Path ==
  { [Program(I_getstatic_Main_x \o I_return, 2, I_return, {}) EXCEPT !.file_path = path] :
      path \in { S_DotSlashMainDotClass, S_DirSlashMainDotClass } }

\* iload_0 in main, whose only local slot was never stored to
P_LoadEmpty == Program(I_bipush_5 \o I_iload_0 \o I_return, 2, I_return, {})

\* a read of Other.x, then a putstatic of the FLOAT 1.5 to Other.x
P_StoreFloat ==
  Program(I_getstatic_Other_x \o I_ldc_float \o I_putstatic_Other_x \o I_return, 2,
          I_return, {})

\* Other.g, invoked from main with the operands in the order the handler
\* pops them, reads Main.x through index 8 of the pool of Other
P_CalleePool ==
  Program(I_ldc_float \o I_bipush_5 \o I_invokestatic_g \o I_return, 2,
          I_getstatic_Main_x_of_Other \o I_return, {})

\* a class Main without a method main, whose first method is named in or a
P_NoMain ==
  { [Program(I_bipush_5 \o I_return, 2, I_return, {}) EXCEPT !.entry_name = name] :
      name \in {52, 53} }

\* h(5), where the Code attribute of h declares max_locals = 0
P_FewLocals ==
  [Program(I_bipush_5 \o I_invokestatic_h \o I_return, 2, I_return, {}) EXCEPT !.h_locals = 0]

Catalog ==
  { P_TwoPrintln, P_CallII, P_CallIF, P_TypedLoad, P_CalleeGetstatic, P_Goto, P_Add, P_Div,
    P_FewLocals, P_Sub, P_PushNegative, P_CountDown, P_BranchTaken, P_BranchNotTaken,
    P_ReturnInt, P_DupInt, P_DupLong, P_NewArray, P_WideIndex, P_LoadEmpty, P_StoreFloat,
    P_CalleePool }

Scenarios == Generated \cup Catalog \cup P_ExtraField \cup P_Path \cup P_NoMain

Init ==
  /\ prog \in Scenarios
  /\ status = "init"
  /\ error = ""
  /\ frames = <<>>
  /\ runtime_classes = <<>>
  /\ output = <<>>
  /\ clinit_runs = <<>>
  /\ last = [op |-> "", pc |-> 0, depth |-> 0, before |-> <<>>, locals |-> <<>>,
             kind |-> "", raised |-> "", registered |-> {}]
  /\ file = <<>>
  /\ parsed = <<>>
  /\ method_descriptor = <<>>
  /\ signature = <<>>

Next ==
  \/ run_class_main
  \/ getstatic
  \/ ldc
  \/ invokevirtual
  \/ invokedynamic
  \/ invokestatic
  \/ invokespecial
  \/ bipush
  \/ sipush
  \/ undispatched
  \/ unknown_opcode

Spec == Init /\ [][Next]_vars

(***************************************************************************)
(* The class files that are parsed: the images of a few classes, written   *)
(* in the class-file format (big-endian counts and indexes, two pool       *)
(* indexes for a Long or a Double), and every file that holds only the     *)
(* first bytes of such an image.                                           *)
(***************************************************************************)
U2(v) == << v \div 256, v % 256 >>

\* the pool entries of an image: the bytes on disk, the number of pool
\* indexes the entry takes, and the cp_info it stands for
E_Utf8(bs) ==
  [bytes |-> <<1>> \o U2(Len(bs)) \o bs, slots |-> 1, info |-> [tag |-> "CONSTANT_Utf8", bytes |-> bs]]
E_Class(n) ==
  [bytes |-> <<7>> \o U2(n), slots |-> 1, info |-> [tag |-> "CONSTANT_Class", name_index |-> n]]
E_NameAndType(n, d) ==
  [bytes |-> <<12>> \o U2(n) \o U2(d), slots |-> 1,
   info |-> [tag |-> "CONSTANT_NameAndType", name_index |-> n, descriptor_index |-> d]]
E_Methodref(c, nt) ==
  [bytes |-> <<10>> \o U2(c) \o U2(nt), slots |-> 1,
   info |-> [tag |-> "CONSTANT_Methodref", class_index |-> c, name_and_type_index |-> nt]]
E_Integer(b4) ==
  [bytes |-> <<3>> \o b4, slots |-> 1, info |-> [tag |-> "CONSTANT_Integer", bytes |-> Halves(b4)]]
E_Long(high4, low4) ==
  [bytes |-> <<5>> \o high4 \o low4, slots |-> 2,
   info |-> [tag |-> "CONSTANT_Long", bytes |-> << Halves(high4), Halves(low4) >>]]

RECURSIVE Flat(_)
\* the concatenation of a sequence of byte sequences
Flat(seqs) == IF seqs = <<>> THEN <<>> ELSE seqs[1] \o Flat(Tail(seqs))

RECURSIVE Slots(_, _)
\* the pool indexes taken by the first n entries
Slots(pool, n) == IF n = 0 THEN 0 ELSE Slots(pool, n - 1) + pool[n].slots

\* field_info and method_info without attributes
MemberBytes(m) == U2(m[1]) \o U2(m[2]) \o U2(m[3]) \o U2(0)

JavaMagic == << 202, 254, 186, 190 >>

Image(magic, pool, interfaces, fields, methods) ==
  [magic |-> magic, pool |-> pool, access_flags |-> 33, this_class |-> 2, super_class |-> 0,
   interfaces |-> interfaces, fields |-> fields, methods |-> methods]

\* the bytes of an image
Encode(d) ==
  d.magic \o U2(0) \o U2(52)
    \o U2(Slots(d.pool, Len(d.pool)) + 1) \o Flat([i \in 1..Len(d.pool) |-> d.pool[i].bytes])
    \o U2(d.access_flags) \o U2(d.this_class) \o U2(d.super_class)
    \o U2(Len(d.interfaces)) \o Flat([i \in 1..Len(d.interfaces) |-> U2(d.interfaces[i])])
    \o U2(Len(d.fields)) \o Flat([i \in 1..Len(d.fields) |-> MemberBytes(d.fields[i])])
    \o U2(Len(d.methods)) \o Flat([i \in 1..Len(d.methods) |-> MemberBytes(d.methods[i])])
    \o U2(0)

\* class A { static void m() }: "A", Class A, "m", "()V", NameAndType, Methodref
PlainPool ==
  << E_Utf8(<<65>>), E_Class(1), E_Utf8(<<109>>), E_Utf8(<<40, 41, 86>>), E_NameAndType(3, 4),
     E_Methodref(2, 5) >>

D_Plain == Image(JavaMagic, PlainPool, <<>>, <<>>, << <<9, 3, 4>> >>)

\* the same with a static field int x: "x" and "I" are entries 7 and 8
D_Field ==
  Image(JavaMagic, PlainPool \o << E_Utf8(<<120>>), E_Utf8(<<73>>) >>, <<>>, << <<8, 7, 8>> >>,
        << <<9, 3, 4>> >>)

\* class A implements B: "B" and Class B are entries 7 and 8
D_Interface ==
  Image(JavaMagic, PlainPool \o << E_Utf8(<<66>>), E_Class(7) >>, << 8 >>, <<>>,
        << <<9, 3, 4>> >>)

\* a Long constant at index 3 (and 4), an Integer at index 5, then "m" and
\* "()V" at 6 and 7
D_Long ==
  Image(JavaMagic,
        << E_Utf8(<<65>>), E_Class(1), E_Long(<<0, 0, 0, 1>>, <<0, 0, 0, 2>>),
           E_Integer(<<0, 0, 0, 7>>), E_Utf8(<<109>>), E_Utf8(<<40, 41, 86>>) >>,
        <<>>, <<>>, << <<9, 6, 7>> >>)

\* a method whose name_index is 0; the last entry of the pool is "n"
D_NameIndex0 ==
  Image(JavaMagic, PlainPool \o << E_Utf8(<<110>>) >>, <<>>, <<>>, << <<9, 0, 4>> >>)

\* files that are no class files: a wrong last byte, the bytes swapped in
\* pairs, zeros, and a magic that starts one byte late
D_WrongMagic ==
  { Image(magic, PlainPool, <<>>, <<>>, << <<9, 3, 4>> >>) :
      magic \in { << 202, 254, 186, 191 >>, << 254, 202, 190, 186 >>, << 0, 0, 0, 0 >>,
                  << 0, 202, 254, 186, 190 >> } }

Images == { D_Plain, D_Field, D_Interface, D_Long, D_NameIndex0 } \cup D_WrongMagic

\* a file: the first `cut` bytes of an image (all of them when complete)
ClassFiles ==
  UNION { { [image |-> d, bytes |-> SubSeq(Encode(d), 1, cut), complete |-> cut = Len(Encode(d))] :
              cut \in 0..Len(Encode(d)) } : d \in Images }

(***************************************************************************)
(* main.py, lines 596 and 556-558: the program starts by parsing the file  *)
(* named on the command line; an exception of the parser ends the program. *)
(***************************************************************************)
LoaderInit ==
  /\ file \in ClassFiles
  /\ parsed = <<>>
  /\ prog = <<>>
  /\ status = "load"
  /\ error = ""
  /\ frames = <<>>
  /\ runtime_classes = <<>>
  /\ output = <<>>
  /\ clinit_runs = <<>>
  /\ last = [op |-> "", pc |-> 0, depth |-> 0, before |-> <<>>, locals |-> <<>>,
             kind |-> "", raised |-> "", registered |-> {}]
  /\ method_descriptor = <<>>
  /\ signature = <<>>

load_main_class ==
  /\ status = "load"
  /\ parsed' = parse_class_file(file.bytes)
  /\ status' = IF parsed'.ok THEN "loaded" ELSE "failed"
  /\ error' = parsed'.err
  /\ UNCHANGED <<prog, file, frames, runtime_classes, output, clinit_runs, last>>
  /\ UNCHANGED <<method_descriptor, signature>>

LoaderNext == load_main_class

LoaderSpec == LoaderInit /\ [][LoaderNext]_vars

(***************************************************************************)
(* The method descriptors that are parsed: up to MaxParams parameters,     *)
(* each a base type, a class type or an array type, and a return type or   *)
(* V.  DescriptorSpec is the run of parse_signature on one of them.        *)
(***************************************************************************)
FieldTypes ==
  { <<"B">>, <<"C">>, <<"D">>, <<"F">>, <<"I">>, <<"J">>, <<"S">>, <<"Z">>,
    <<"L", "x", ";">>, <<"[", "I">>, <<"[", "[", "D">>, <<"[", "L", "x", ";">> }

RECURSIVE ParamLists(_)
\* the sequences of at most n field types
ParamLists(n) ==
  IF n = 0 THEN { <<>> }
  ELSE ParamLists(n - 1) \cup { Append(ps, t) : ps \in ParamLists(n - 1), t \in FieldTypes }

\* a descriptor by its parts, and the text of it
Descriptors ==
  { [params |-> ps, ret |-> r] : ps \in ParamLists(MaxParams), r \in FieldTypes \cup {<<"V">>} }

Text(d) == <<"(">> \o Flat(d.params) \o <<")">> \o d.ret

DescriptorInit ==
  /\ method_descriptor \in Descriptors
  /\ signature = <<>>
  /\ file = <<>>
  /\ parsed = <<>>
  /\ prog = <<>>
  /\ status = "load"
  /\ error = ""
  /\ frames = <<>>
  /\ runtime_classes = <<>>
  /\ output = <<>>
  /\ clinit_runs = <<>>
  /\ last = [op |-> "", pc |-> 0, depth |-> 0, before |-> <<>>, locals |-> <<>>,
             kind |-> "", raised |-> "", registered |-> {}]

\* parse_signature(method_signature), as the invokestatic handler calls it
\* at line 280
parse_descriptor ==
  /\ status = "load"
  /\ signature' = parse_signature(Text(method_descriptor))
  /\ status' = IF signature'.ok THEN "loaded" ELSE "failed"
  /\ error' = signature'.err
  /\ UNCHANGED <<prog, file, parsed, frames, runtime_classes, output, clinit_runs, last>>
  /\ UNCHANGED method_descriptor

DescriptorNext == parse_descriptor

DescriptorSpec == DescriptorInit /\ [][DescriptorNext]_vars

(***************************************************************************)
(* The properties checked.  `last` tells which instruction was dispatched  *)
(* last, by which frame, and what that frame's stack and the registry were *)
(* before it.                                                              *)
(***************************************************************************)
\* the frame that dispatched the last instruction, as the instruction left it
Dispatcher == frames[last.depth]

\* the last instruction dispatched was read from these bytes
LastInstrIs(bytes) ==
  /\ last.depth > 0
  /\ last.pc + Len(bytes) <= Len(Dispatcher.code)
  /\ SubSeq(Dispatcher.code, last.pc + 1, last.pc + Len(bytes)) = bytes

\* C1: in every frame, at every PC reached, the operand stack is at most
\* max_stack deep
StackWithinMaxStack ==
  \A i \in 1..Len(frames) : Len(frames[i].stack) <= frames[i].max_stack

\* C2: across a run, the <clinit> of each class is invoked at most once,
\* whatever instructions refer to the class
ClinitAtMostOnce ==
  /\ \A n \in DOMAIN clinit_runs : clinit_runs[n] <= 1
  /\ \A i, j \in 1..Len(frames) :
       (frames[i].kind = "clinit" /\ frames[j].kind = "clinit" /\ frames[i].of = frames[j].of)
         => i = j

\* the <clinit> of Other, started from the <clinit> of Main, has read Main.x
\* and Other.x: two getstatic on classes whose <clinit> was started before,
\* and neither started it again
ClinitNotRepeated ==
  /\ last.depth >= 3
  /\ last.op = "getstatic"
  /\ last.raised = ""
  /\ Len(frames) = last.depth
  /\ Dispatcher.kind = "clinit"
  /\ Dispatcher.of = S_Other
  /\ Len(Dispatcher.stack) = 2
  /\ \E i \in 1..Len(frames) : frames[i].kind = "clinit" /\ frames[i].of = S_Main
  /\ last.registered = {S_Main, S_Other}
  /\ clinit_runs[S_Main] = 1
  /\ clinit_runs[S_Other] = 1

\* C3: when a method invoked by invokestatic on class C starts, C is
\* registered in the runtime-class registry
InvokedClassInitialized ==
  \A i \in 1..Len(frames) :
    frames[i].kind = "invokestatic" => frames[i].of \in DOMAIN runtime_classes

\* C4: putstatic Other.x, with an operand on the stack and Other loaded but
\* not initialized, registers Other and stores the operand in its field x
PutstaticInitializesAndStores ==
  (/\ LastInstrIs(I_putstatic_Other_x)
   /\ last.before # <<>>
   /\ S_Other \in DOMAIN loaded_classes
   /\ S_Other \notin last.registered)
    => /\ last.raised = ""
       /\ S_Other \in DOMAIN runtime_classes
       /\ S_x \in DOMAIN runtime_classes[S_Other].static_fields
       /\ runtime_classes[S_Other].static_fields[S_x] = last.before[Len(last.before)]

\* the zero value of a field type
ZeroValue(descriptor) ==
  CASE descriptor = <<"I">> -> Operand("INT", "int", 0)
    [] descriptor = <<"F">> -> Operand("FLOAT", "float", 0)
    [] descriptor = <<"J">> -> Operand("LONG", "int", 0)
    [] descriptor = <<"D">> -> Operand("DOUBLE", "float", 0)
    [] OTHER -> Operand("REFERENCE", "none", 0)

\* the static field k of the class is allocated; `zeroed`: and holds the zero
\* value of its type
FieldAllocated(class_file, k, static_fields, zeroed) ==
  IsStatic(class_file.fields[k].access_flags) =>
    /\ NameAt(class_file.constant_pool, class_file.fields[k].name_index) \in DOMAIN static_fields
    /\ zeroed =>
         static_fields[NameAt(class_file.constant_pool, class_file.fields[k].name_index)]
           = ZeroValue(NameAt(class_file.constant_pool, class_file.fields[k].descriptor_index))

\* C5: while a <clinit> runs, its class is registered and none of its static
\* fields is missing; when its first instruction executes, every static
\* field holds the zero value of its type
ClinitSeesZeroedFields ==
  \A i \in 1..Len(frames) :
    frames[i].kind = "clinit" =>
      /\ frames[i].of \in DOMAIN runtime_classes
      /\ \A k \in 1..Len(loaded_classes[frames[i].clazz].fields) :
           FieldAllocated(loaded_classes[frames[i].clazz], k,
                          runtime_classes[frames[i].of].static_fields,
                          frames[i].op_count = 0)

\* the <clinit> of Other (an int field and a reference field) is about to
\* execute its first instruction
ClinitStarts ==
  /\ status = "running"
  /\ Len(frames) >= 2
  /\ Top.kind = "clinit"
  /\ Top.of = S_Other
  /\ Top.op_count = 0
  /\ Top.pc = 0
  /\ DOMAIN runtime_classes[S_Other].static_fields = {S_x, S_r}

\* the opcodes that load local 0 as an int or as a float
LoadsLocal0 == {"iload_0", "fload_0"}

\* what a failed type check raises (pop_expected, the assertions)
TypeMismatch == {"RuntimeError", "AssertionError", "TypeError"}

\* C6: iload_0 (fload_0) dispatched on a local that holds an operand of
\* another type fails with a type mismatch
TypedLoadChecked ==
  (/\ last.depth > 0
   /\ last.op \in LoadsLocal0
   /\ Dispatcher.local_vars # <<>>
   /\ Dispatcher.local_vars[1].type # (IF last.op = "iload_0" THEN "INT" ELSE "FLOAT"))
    => last.raised \in TypeMismatch

\* C7: a print/println that succeeded has removed exactly the two topmost
\* operands
PrintPopsTwo ==
  (last.depth > 0 /\ last.op = "invokevirtual" /\ last.raised = "")
    => /\ Len(last.before) >= 2
       /\ Dispatcher.stack = SubSeq(last.before, 1, Len(last.before) - 2)

\* the static methods main can invoke, with their parameter types
Invocable ==
  { [instr |-> I_invokestatic_f, types |-> parse_signature(S_Desc_II_V).v.args],
    [instr |-> I_invokestatic_g, types |-> parse_signature(S_Desc_IF_V).v.args],
    [instr |-> I_invokestatic_h, types |-> parse_signature(S_Desc_I_V).v.args] }

\* a1..an, the n topmost operands before the last instruction (an on top)
Arg(n, i) == last.before[Len(last.before) - n + i]

\* C8: invokestatic of a method with parameter types t1..tn on a stack that
\* ends with a1..an, each ai of type ti, passes its type check and starts a
\* frame whose local i-1 is ai
InvokestaticPassesArgsInOrder ==
  \A m \in Invocable :
    (/\ LastInstrIs(m.instr)
     /\ Dispatcher.kind = "main"
     /\ Len(last.before) >= Len(m.types)
     /\ \A i \in 1..Len(m.types) : Arg(Len(m.types), i).type = m.types[i])
      => /\ last.raised = ""
         /\ Len(frames) = last.depth + 1
         /\ \A i \in 1..Len(m.types) : Top.local_vars[i] = Arg(Len(m.types), i)

\* C9: invokespecial leaves the stack as it was and the cursor behind its two
\* operand bytes
InvokespecialSkipsOperands ==
  (last.depth > 0 /\ last.op = "invokespecial")
    => /\ Dispatcher.pc = last.pc + 3
       /\ Dispatcher.stack = last.before
       /\ DOMAIN runtime_classes = last.registered

\* the target of the goto dispatched last: the address of its opcode plus
\* its signed 16-bit operand
GotoTarget ==
  last.pc + u16_to_i16(Dispatcher.code[last.pc + 2] * 256 + Dispatcher.code[last.pc + 3])

\* C10: after a goto whose target lies within the code, the frame goes on at
\* a PC within the code; after one whose target lies outside it, the frame
\* has failed
BranchLandsInCode ==
  (last.depth > 0 /\ last.op = "goto" /\ last.pc + 3 <= Len(Dispatcher.code))
    => IF 0 <= GotoTarget /\ GotoTarget < Len(Dispatcher.code)
       THEN last.raised = "" /\ 0 <= Dispatcher.pc /\ Dispatcher.pc < Len(Dispatcher.code)
       ELSE status = "failed"

\* the two topmost operands before the last instruction are INTs
TwoIntsBefore ==
  /\ last.depth > 0
  /\ Len(last.before) >= 2
  /\ Arg(2, 1).type = "INT"
  /\ Arg(2, 2).type = "INT"

\* what the last instruction left of the stack it found, below the two
\* topmost operands, with one operand pushed
Replaced2(v) == Append(SubSeq(last.before, 1, Len(last.before) - 2), v)

\* the sum v of two 32-bit integers wrapped into [-2^31, 2^31)
Wrap32(v) ==
  IF v > 2147483647 THEN ((v - 2147483647) - 2147483647) - 2
  ELSE IF v < -2147483647 - 1 THEN ((v + 2147483647) + 2147483647) + 2
  ELSE v

\* C11: iadd on two INT operands a and b goes on with (a + b) wrapped into
\* [-2^31, 2^31) in their place
IaddWraps32 ==
  (TwoIntsBefore /\ last.op = "iadd")
    => /\ last.raised = ""
       /\ Dispatcher.stack = Replaced2(IntOp(Wrap32(Arg(2, 1).value + Arg(2, 2).value)))

\* a / b rounded toward zero
TruncDiv(a, b) ==
  IF (a < 0) = (b < 0)
  THEN (IF a < 0 THEN -a ELSE a) \div (IF b < 0 THEN -b ELSE b)
  ELSE -((IF a < 0 THEN -a ELSE a) \div (IF b < 0 THEN -b ELSE b))

\* C12: idiv on two INT operands a and b, b not 0, goes on with a / b rounded
\* toward zero in their place; with b = 0 the run fails
IdivTruncates ==
  (TwoIntsBefore /\ last.op = "idiv")
    => IF Arg(2, 2).value = 0 THEN status = "failed"
       ELSE /\ last.raised = ""
            /\ Dispatcher.stack = Replaced2(IntOp(TruncDiv(Arg(2, 1).value, Arg(2, 2).value)))

\* C14: in every frame, also one created with passed arguments, the
\* local-variable array has exactly max_locals slots
LocalsExactlyMaxLocals ==
  \A i \in 1..Len(frames) : Len(frames[i].local_vars) = frames[i].max_locals

\* C18: an error raised by an instruction of any frame fails the run, and
\* once the run has failed no frame executes another opcode and nothing
\* more is written to the print sink
ErrorFailsEveryFrame ==
  /\ [](last.raised # "" => status = "failed")
  /\ [][status = "failed" => UNCHANGED <<status, frames, runtime_classes, output>>]_vars

\* an instruction of a <clinit> that runs below a method reached through
\* invokestatic has raised, while every enclosing frame still has opcodes to
\* execute
NestedErrorRaised ==
  /\ status = "failed"
  /\ last.raised # ""
  /\ last.depth = Len(frames)
  /\ Len(frames) >= 3
  /\ Top.kind = "clinit"
  /\ \E i \in 1..Len(frames) : frames[i].kind = "invokestatic"
  /\ \A i \in 1..(Len(frames) - 1) : frames[i].pc < Len(frames[i].code)

\* C21: isub on two INT operands v1 (below) and v2 (top) goes on with the
\* INT v1 - v2 in their place
IsubSubtracts ==
  (TwoIntsBefore /\ last.op = "isub")
    => /\ last.raised = ""
       /\ status = "running"
       /\ Dispatcher.stack = Replaced2(IntOp(Arg(2, 1).value - Arg(2, 2).value))

\* a byte read as a signed 8-bit value
Signed8(byte) == IF byte >= 128 THEN byte - 256 ELSE byte

\* two bytes read as a signed 16-bit value, the first byte the upper one
Signed16(byte1, byte2) ==
  IF byte1 >= 128 THEN (byte1 * 256 + byte2) - 65536 ELSE byte1 * 256 + byte2

\* C22: bipush goes on with its operand byte pushed as a signed 8-bit INT,
\* sipush with its two operand bytes pushed as a signed 16-bit INT
PushesSigned ==
  /\ (last.depth > 0 /\ last.op = "bipush" /\ last.pc + 2 <= Len(Dispatcher.code))
       => /\ last.raised = ""
          /\ Dispatcher.stack
               = Append(last.before, IntOp(Signed8(Dispatcher.code[last.pc + 2])))
  /\ (last.depth > 0 /\ last.op = "sipush" /\ last.pc + 3 <= Len(Dispatcher.code))
       => /\ last.raised = ""
          /\ Dispatcher.stack
               = Append(last.before, IntOp(Signed16(Dispatcher.code[last.pc + 2],
                                                   Dispatcher.code[last.pc + 3])))

\* the local-variable index named by the iinc dispatched last
IincIndex == Dispatcher.code[last.pc + 2]

\* C23: iinc on an INT local goes on with its constant byte, read as a
\* signed 8-bit value, added to that local, and the other locals as they
\* were
IincSignExtends ==
  (/\ last.depth > 0
   /\ last.op = "iinc"
   /\ last.pc + 3 <= Len(Dispatcher.code)
   /\ IincIndex < Len(last.locals)
   /\ last.locals[IincIndex + 1].type = "INT")
    => /\ last.raised = ""
       /\ Dispatcher.local_vars
            = [last.locals EXCEPT ![IincIndex + 1] =
                 IntOp(@.value + Signed8(Dispatcher.code[last.pc + 3]))]

\* the conditional branches on two INTs, and whether v1 (below) and v2 (top)
\* satisfy the condition of each
Taken(op, v1, v2) ==
  \/ op = "if_icmpeq" /\ v1 = v2
  \/ op = "if_icmpne" /\ v1 # v2
  \/ op = "if_icmplt" /\ v1 < v2
  \/ op = "if_icmpge" /\ v1 >= v2
  \/ op = "if_icmpgt" /\ v1 > v2
  \/ op = "if_icmple" /\ v1 <= v2

IfIcmp == {"if_icmpeq", "if_icmpne", "if_icmplt", "if_icmpge", "if_icmpgt", "if_icmple"}

\* the branch dispatched last has its two offset bytes and a target within
\* the code
BranchWithinCode ==
  /\ last.depth > 0
  /\ last.pc + 3 <= Len(Dispatcher.code)
  /\ 0 <= GotoTarget
  /\ GotoTarget < Len(Dispatcher.code)

\* C24: after a goto at PC p with offset o, and after a taken if_icmp<cond>,
\* the frame goes on at p + o; after an if_icmp<cond> that is not taken it
\* goes on at p + 3
BranchGoesToTarget ==
  /\ (last.op = "goto" /\ BranchWithinCode)
       => last.raised = "" /\ Dispatcher.pc = GotoTarget
  /\ (last.op \in IfIcmp /\ TwoIntsBefore /\ BranchWithinCode)
       => /\ last.raised = ""
          /\ Dispatcher.pc = IF Taken(last.op, Arg(2, 1).value, Arg(2, 2).value)
                             THEN GotoTarget ELSE last.pc + 3

\* C25: when the frame of an invoked static method of descriptor (...)V
\* executes return, that frame is gone and its caller, whose stack lost the
\* arguments at the call, goes on with nothing pushed
VoidCalleeReturnsToCaller ==
  (last.kind = "invokestatic" /\ last.op = "return_op")
    => /\ last.raised = ""
       /\ Len(frames) = last.depth - 1

\* the opcodes that return a value, and the operand type each one pops
ReturnedType ==
  [ ireturn |-> "INT", freturn |-> "FLOAT", areturn |-> "REFERENCE", lreturn |-> "LONG",
    dreturn |-> "DOUBLE" ]

\* the last instruction was a return, with an operand of its type on top of
\* the stack unless it is the plain return
ReturnsProperly ==
  \/ last.op = "return_op"
  \/ /\ last.op \in DOMAIN ReturnedType
     /\ last.before # <<>>
     /\ Arg(1, 1).type = ReturnedType[last.op]

\* C26: a return with an operand of its type on top (or plain return) ends
\* its frame without an error; a value return on an empty stack or on an
\* operand of another type, and running past the last byte of the code,
\* fail the frame
FrameTerminatesOnce ==
  /\ (last.depth > 0 /\ ReturnsProperly) => last.raised = ""
  /\ (last.depth > 0 /\ last.op \in DOMAIN ReturnedType /\ ~ReturnsProperly)
       => status = "failed"
  /\ (frames # <<>> /\ Top.pc >= Len(Top.code)) => status = "failed"

\* the class named by the Fieldref that the getstatic at cursor pc of frame
\* fr refers to
ClassNamedAt(fr, pc) ==
  Bind(from_cp(Pool(fr), parse_i2(fr.code, pc + 1).v), LAMBDA fieldref :
  Bind(Field(fieldref, "class_index"), LAMBDA class_index :
    get_name_of(Pool(fr), class_index)))

\* the innermost frame is about to execute a getstatic on a loaded class
\* that is registered already: initialize_runtime_class is called for it
InitializesRegistered ==
  /\ Dispatching("getstatic")
  /\ Top.pc + 3 <= Len(Top.code)
  /\ ClassNamedAt(Top, Top.pc).ok
  /\ ClassNamedAt(Top, Top.pc).v \in DOMAIN loaded_classes
  /\ ClassNamedAt(Top, Top.pc).v \in DOMAIN runtime_classes

\* C27: initialize_runtime_class called for a class that is registered
\* already starts no frame and leaves the registry, with the value of every
\* static field, as it was
InitializeIdempotent ==
  [][InitializesRegistered
       => /\ runtime_classes' = runtime_classes
          /\ clinit_runs' = clinit_runs
          /\ Len(frames') = Len(frames)]_vars

\* a getstatic has read a field of a class whose <clinit> was started
\* before, and went on with the field's value pushed and no frame started
ReadAfterInitialized ==
  /\ last.depth > 0
  /\ last.op = "getstatic"
  /\ last.raised = ""
  /\ Len(frames) = last.depth
  /\ ClassNamedAt(Dispatcher, last.pc).ok
  /\ ClassNamedAt(Dispatcher, last.pc).v \in last.registered
  /\ ClassNamedAt(Dispatcher, last.pc).v \in DOMAIN clinit_runs
  /\ Dispatcher.stack = Append(last.before, IntOp(0))

\* the default value of a static field, by its descriptor
DefaultOf(descriptor) ==
  CASE descriptor \in {<<"I">>, <<"S">>, <<"B">>, <<"C">>, <<"Z">>} -> IntOp(0)
    [] descriptor = <<"J">> -> LongOp(0)
    [] descriptor = <<"F">> -> FloatOp(0)
    [] descriptor = <<"D">> -> DoubleOp(0)
    [] OTHER -> NullRef

\* every static field of the class file is in static_fields with the
\* default value of its descriptor
DefaultsAllocated(class_file, static_fields) ==
  \A k \in 1..Len(class_file.fields) :
    IsStatic(class_file.fields[k].access_flags) =>
      /\ NameAt(class_file.constant_pool, class_file.fields[k].name_index)
           \in DOMAIN static_fields
      /\ static_fields[NameAt(class_file.constant_pool, class_file.fields[k].name_index)]
           = DefaultOf(NameAt(class_file.constant_pool, class_file.fields[k].descriptor_index))

\* the last instruction was a getstatic on a loaded class that was not
\* registered: it initialized the class
InitializedByLast ==
  /\ last.depth > 0
  /\ last.op = "getstatic"
  /\ ClassNamedAt(Dispatcher, last.pc).ok
  /\ ClassNamedAt(Dispatcher, last.pc).v \in DOMAIN loaded_classes
  /\ ClassNamedAt(Dispatcher, last.pc).v \notin last.registered

\* C28: the initialization of a class registers it with every static field
\* at the default of its descriptor, whichever of the descriptors I, S, B,
\* C, Z, J, F, D, L...; and [... the fields have
StaticDefaultsByDescriptor ==
  InitializedByLast
    => /\ ClassNamedAt(Dispatcher, last.pc).v \in DOMAIN runtime_classes
       /\ DefaultsAllocated(loaded_classes[ClassNamedAt(Dispatcher, last.pc).v],
                            runtime_classes[ClassNamedAt(Dispatcher, last.pc).v].static_fields)

\* the field that the getstatic dispatched last refers to, as the registry
\* holds it
FieldReadByLast ==
  runtime_classes[ClassNamedAt(Dispatcher, last.pc).v].static_fields[
    get_name_of(Pool(Dispatcher),
                from_cp(Pool(Dispatcher),
                        parse_i2(Dispatcher.code, last.pc + 1).v).v.name_and_type_index).v]

\* C29: putstatic Other.x with an operand on the stack stores the operand
\* in Other.x, whether or not Other was registered before, and leaves
\* Other.r, which no instruction stores to, at its default; a getstatic that
\* goes on has pushed what the registry holds for its field
StaticFieldHoldsLastStore ==
  /\ (/\ LastInstrIs(I_putstatic_Other_x)
      /\ last.before # <<>>
      /\ S_Other \in DOMAIN loaded_classes)
       => /\ last.raised = ""
          /\ Dispatcher.stack = SubSeq(last.before, 1, Len(last.before) - 1)
          /\ S_Other \in DOMAIN runtime_classes
          /\ S_x \in DOMAIN runtime_classes[S_Other].static_fields
          /\ runtime_classes[S_Other].static_fields[S_x] = Arg(1, 1)
          /\ runtime_classes[S_Other].static_fields[S_r] = NullRef
  /\ (/\ last.depth > 0
      /\ last.op = "getstatic"
      /\ last.raised = ""
      /\ Len(frames) = last.depth
      /\ ClassNamedAt(Dispatcher, last.pc).ok
      /\ ClassNamedAt(Dispatcher, last.pc).v \in DOMAIN loaded_classes)
       => Dispatcher.stack = Append(last.before, FieldReadByLast)

\* the operand types of category 2
Category2 == {"LONG", "DOUBLE"}

\* C31: dup on a LONG or DOUBLE operand fails the run and leaves the stack
\* as it was; on an operand of any other type it goes on with the operand
\* pushed once more
DupSingleCategoryOnly ==
  (last.depth > 0 /\ last.op = "dup" /\ last.before # <<>>)
    => IF Arg(1, 1).type \in Category2
       THEN status = "failed" /\ Dispatcher.stack = last.before
       ELSE last.raised = "" /\ Dispatcher.stack = Append(last.before, Arg(1, 1))

\* the last instruction was newarray T_INT, with an INT count of at least 0
\* on top of the stack
NewIntArray ==
  /\ LastInstrIs(I_newarray_int)
  /\ last.before # <<>>
  /\ Arg(1, 1).type = "INT"
  /\ Arg(1, 1).value >= 0

\* C32: newarray T_INT with the count n on the stack goes on with a
\* reference to an array of n elements INT 0 in place of the count
NewarrayPushesZeroedArray ==
  NewIntArray
    => /\ last.raised = ""
       /\ Len(Dispatcher.stack) = Len(last.before)
       /\ Dispatcher.stack[Len(last.before)].type = "REFERENCE"
       /\ Dispatcher.stack[Len(last.before)].value
            = [i \in 1..Arg(1, 1).value |-> IntOp(0)]

\* the pool index that the two index bytes of the invokestatic dispatched
\* last encode, as an unsigned 16-bit number
UnsignedIndex == Dispatcher.code[last.pc + 2] * 256 + Dispatcher.code[last.pc + 3]

\* C33: invokestatic whose index bytes, read as an unsigned 16-bit number,
\* name a Methodref of the pool, with the arguments on the stack, goes on
\* with the frame of that method, also for an index of 32768 or more
InvokestaticIndexUnsigned ==
  (/\ last.depth > 0
   /\ last.op = "invokestatic"
   /\ last.pc + 3 <= Len(Dispatcher.code)
   /\ UnsignedIndex \in 1..Len(Pool(Dispatcher))
   /\ Pool(Dispatcher)[UnsignedIndex] = Methodref(2, 39)
   /\ last.before # <<>>
   /\ Arg(1, 1).type = "INT")
    => /\ last.raised = ""
       /\ Len(frames) = last.depth + 1
       /\ Top.kind = "invokestatic"
       /\ Top.local_vars[1] = Arg(1, 1)

\* C34: the main class is in loaded_classes under the name of its
\* this_class entry whatever path it was loaded from, and a getstatic of
\* Main.x in the main method goes on with Main registered
MainClassKeyedByName ==
  /\ status # "init" => S_Main \in DOMAIN loaded_classes
  /\ (last.kind = "main" /\ LastInstrIs(I_getstatic_Main_x))
       => last.raised = "" /\ S_Main \in DOMAIN runtime_classes

\* the members of OperandType
OperandTypes ==
  {"OBJECT", "INT", "LONG", "FLOAT", "DOUBLE", "REFERENCE", "RETURN_ADDR", "VOID"}

\* C35: every element of the operand stack of every frame is an operand of
\* one of the operand types, never an empty local slot.  (A load of a local
\* is refused by the dispatch chain before it reads the slot.)
StackHoldsOperands ==
  \A i \in 1..Len(frames) :
    \A k \in 1..Len(frames[i].stack) : frames[i].stack[k].type \in OperandTypes

\* iload_0 was dispatched by a frame whose local 0 is empty and whose stack
\* holds an operand: the stack is as it was
LoadOfEmptySlot ==
  /\ last.depth > 0
  /\ last.op = "iload_0"
  /\ last.locals # <<>>
  /\ last.locals[1] = NoneSlot
  /\ last.before # <<>>
  /\ Dispatcher.stack = last.before

\* the operand type a field descriptor maps to
FieldOperandType(field_type) ==
  CASE field_type = <<"I">> -> "INT"
    [] field_type = <<"F">> -> "FLOAT"
    [] field_type = <<"J">> -> "LONG"
    [] field_type = <<"D">> -> "DOUBLE"
    [] OTHER -> "REFERENCE"

\* every static field that the registry holds for the class file has the
\* operand type of its descriptor
FieldsTyped(class_file, static_fields) ==
  \A k \in 1..Len(class_file.fields) :
    NameAt(class_file.constant_pool, class_file.fields[k].name_index) \in DOMAIN static_fields
      => static_fields[NameAt(class_file.constant_pool, class_file.fields[k].name_index)].type
           = FieldOperandType(NameAt(class_file.constant_pool,
                                     class_file.fields[k].descriptor_index))

\* C36: every static field of every registered class holds an operand of
\* the type its descriptor maps to, whatever putstatic instructions were
\* dispatched
StaticFieldsKeepType ==
  \A n \in DOMAIN runtime_classes :
    FieldsTyped(loaded_classes[runtime_classes[n].class_file], runtime_classes[n].static_fields)

\* a putstatic to the INT field Other.x was dispatched with a FLOAT on the
\* stack and Other registered: the field is the INT it was
FloatNotStoredInIntField ==
  /\ LastInstrIs(I_putstatic_Other_x)
  /\ S_Other \in last.registered
  /\ last.before # <<>>
  /\ Arg(1, 1).type = "FLOAT"
  /\ runtime_classes[S_Other].static_fields[S_x] = IntOp(0)

\* the <clinit> of Other, started by the <clinit> of Main reading Other.x,
\* has read Main.x and Other.x and executes its return
NestedClinitReturns ==
  /\ last.kind = "clinit"
  /\ last.op = "return_op"
  /\ last.depth >= 2
  /\ Len(frames) >= last.depth
  /\ frames[last.depth].of = S_Other
  /\ \E i \in 1..(last.depth - 1) : frames[i].kind = "clinit" /\ frames[i].of = S_Main

\* C37: with the initializers of Main and Other reading a static of each
\* other, the nested initialization of Other ends without an error after
\* its inner read of Main.x pushed the default, with no initializer
\* started twice
CyclicInitializationReturns ==
  NestedClinitReturns
    => /\ last.before = << IntOp(0), IntOp(0) >>
       /\ clinit_runs[S_Main] = 1
       /\ clinit_runs[S_Other] = 1
       /\ last.raised = ""

\* the internal name of the class file that the frame executes against
ClassOfFrame(fr) ==
  get_name_of(loaded_classes[fr.clazz].constant_pool, loaded_classes[fr.clazz].this_class).v

\* C38: the frame of a method invoked by invokestatic executes against the
\* class file of the class that declares the method: a getstatic in Other.g
\* through index 8 of the pool of Other, the Fieldref of Main.x, goes on
MethodRunsAgainstOwnClass ==
  /\ \A i \in 1..Len(frames) :
       frames[i].kind = "invokestatic" => ClassOfFrame(frames[i]) = frames[i].of
  /\ (/\ last.kind = "invokestatic"
      /\ LastInstrIs(I_getstatic_Main_x_of_Other)
      /\ Dispatcher.of = S_Other)
       => last.raised = "" /\ S_Main \in DOMAIN runtime_classes

\* the name of the first method of the main class, the one that holds the
\* code `main` of the program
EntryName == NameAt(MainPool, prog.entry_name)

\* C39: code is executed as the entry point only when it is the code of a
\* method named main: with a first method named in or a, and no method
\* named main, no frame is ever started
OnlyMainIsEntryPoint ==
  (frames # <<>> /\ frames[1].kind = "main") => EntryName = S_main

(***************************************************************************)
(* The properties of the parser, checked under LoaderSpec.                 *)
(***************************************************************************)
\* the file was parsed and holds all the bytes of a class file
CompleteClassFile == status # "load" /\ file.complete /\ file.image.magic = JavaMagic

\* the pool index of the j-th entry of an image
IndexOf(pool, j) == Slots(pool, j - 1) + 1

\* C15: the pool decoded from a complete class file of pool count N has N-1
\* slots, and every entry is at its own index, the entries behind a Long
\* two indexes after it
PhantomSlotReserved ==
  CompleteClassFile
    => /\ parsed.ok
       /\ Len(parsed.v.constant_pool) = Slots(file.image.pool, Len(file.image.pool))
       /\ \A j \in 1..Len(file.image.pool) :
            parsed.v.constant_pool[IndexOf(file.image.pool, j)] = file.image.pool[j].info

\* C16: a class file with a method whose name_index is 0 is rejected
PoolIndexZeroFatal ==
  (CompleteClassFile /\ \E i \in 1..Len(file.image.methods) : file.image.methods[i][2] = 0)
    => ~parsed.ok

\* C17: a class file that ends before its last byte, so that a read of the
\* parser goes past its end, is rejected
TruncatedFileFatal ==
  (status # "load" /\ ~file.complete /\ file.image.magic = JavaMagic) => ~parsed.ok

\* C19: the interfaces parsed from a complete class file are the interface
\* indexes of the file, and as many fields follow as the file declares
InterfacesCountBigEndian ==
  (CompleteClassFile /\ parsed.ok)
    => /\ Len(parsed.v.interfaces) = Len(file.image.interfaces)
       /\ \A i \in 1..Len(file.image.interfaces) :
            parsed.v.interfaces[i].index = file.image.interfaces[i]
       /\ Len(parsed.v.fields) = Len(file.image.fields)

\* the file starts with the four bytes CA FE BA BE
StartsWithJavaMagic == Len(file.bytes) >= 4 /\ SubSeq(file.bytes, 1, 4) = JavaMagic

\* C20: a file whose first four bytes are not CA FE BA BE ends the program
\* with RuntimeError when at most those four bytes have been read: no pool
\* entry is decoded, no frame is started and nothing is printed
WrongMagicRejected ==
  (status # "load" /\ ~StartsWithJavaMagic)
    => /\ status = "failed"
       /\ error = "RuntimeError"
       /\ ~parsed.ok
       /\ parsed.pc <= 4
       /\ frames = <<>>
       /\ output = <<>>

\* a complete image whose magic differs from CA FE BA BE in its last byte
\* only has been rejected
LastMagicByteWrong ==
  /\ status = "failed"
  /\ file.complete
  /\ file.image.magic = << 202, 254, 186, 191 >>
  /\ error = "RuntimeError"
  /\ parsed.pc = 4

(***************************************************************************)
(* The properties of the descriptor parser, checked under DescriptorSpec.  *)
(***************************************************************************)
\* the operand type of a field type
TypeOfField(t) ==
  CASE t \in {<<"B">>, <<"C">>, <<"I">>, <<"S">>, <<"Z">>} -> "INT"
    [] t = <<"J">> -> "LONG"
    [] t = <<"F">> -> "FLOAT"
    [] t = <<"D">> -> "DOUBLE"
    [] OTHER -> "REFERENCE"

\* C30: a method descriptor parses to one operand type for each of its
\* parameters, a class type and an array type each being one REFERENCE, and
\* to the operand type of its return type, VOID for V
DescriptorParsedByParameter ==
  status # "load"
    => /\ signature.ok
       /\ signature.v.args
            = [i \in 1..Len(method_descriptor.params) |-> TypeOfField(method_descriptor.params[i])]
       /\ signature.v.return_type
            = IF method_descriptor.ret = <<"V">>
              THEN "VOID" ELSE TypeOfField(method_descriptor.ret)
====
